---- MODULE Spec2Model ----
(***************************************************************************)
(* State-machine model of the gateway protocol core:                       *)
(*   src/src/gateway/server.ts        (server, connection handlers,        *)
(*                                     broadcast, dedupe cache)            *)
(*   src/src/infra/system-presence.ts (presence registry)                  *)
(*   src/src/gateway/client.ts        (gateway client)                     *)
(*   src/unnamed/part_006             (callGateway)                        *)
(* Node runs every handler segment between two awaits atomically, so each  *)
(* action below is one such segment.                                       *)
(***************************************************************************)
EXTENDS Integers, Sequences, FiniteSets, TLC

(* ------------------------------ bounds -------------------------------- *)
MaxConns == 2
MaxReqs == 2
MaxSeq == 1
DedupeReqs == 2
DedupeSeq == 1
MaxClock == 1
EventReqs == 1
EventSeq == 3
FrameReqs == 1
FrameSeq == 1
MaxFrames == 1
MaxExtra == 2
MaxStale == 2
MaxAttempts == 7
MaxSockets == 2
MaxCalls == 2
MaxEvents == 3

(* ------------------------- program constants -------------------------- *)
PROTOCOL_VERSION == 1
MAX_BUFFERED_BYTES == 1572864
DEDUPE_TTL_MS == 300000
DEDUPE_MAX == 1000
TTL_MS == 300000
MAX_ENTRIES == 200

Conns == 1..MaxConns
ClockStep == DEDUPE_TTL_MS + 1
BufferLevels == {MAX_BUFFERED_BYTES, MAX_BUFFERED_BYTES + 1}

METHODS ==
  {"health", "status", "system-presence", "system-event", "set-heartbeats", "send", "agent"}
RequestedMethods == METHODS \cup {"bogus"}
IdemKeys == {"", "K"}
Texts == {"", " ", "note"}
SessionIds == {"", "S"}
InstanceIds == {"", "I"}
Tokens == {"", "secret", "wrong"}
ConfiguredTokens == {"", "secret"}
HelloRanges == {<<1, 1>>, <<1, 2>>, <<2, 2>>}
PortErrors == {"Error: boom"}
\* What the Agent port rejects with when the caller-supplied timeout has elapsed.
TimeoutError == "Error: agent timed out"
DeliveryResults == {[messageId |-> "msg-1", toJid |-> "jid-1"]}

(* ------------------------------ values -------------------------------- *)
NoId == <<"none", 0>>
InvalidId == <<"invalid", 0>>
ReqId(n) == <<"req", n>>
NoRun == <<"none", "", 0>>
NoVersion == [presence |-> 0, health |-> 0]
FrameId == <<"frame", 0>>

\* What a message handler was given: a frame that is no JSON ("unparseable"), a hello
\* (schema-valid or not, with its protocol range and auth.token, "" when absent), or
\* another JSON frame, with or without an id.
NoFrame ==
  [kind |-> "none", valid |-> FALSE, minProtocol |-> 0, maxProtocol |-> 0, token |-> "",
   id |-> NoId]
HelloFrame(valid, minProtocol, maxProtocol, token) ==
  [kind |-> "hello", valid |-> valid, minProtocol |-> minProtocol,
   maxProtocol |-> maxProtocol, token |-> token, id |-> NoId]
UnparseableFrame == [NoFrame EXCEPT !.kind = "unparseable"]
OtherFrame(id) == [NoFrame EXCEPT !.kind = "other", !.id = id]

Undefined ==
  [kind |-> "undefined", runId |-> NoRun, status |-> "", summary |-> "",
   messageId |-> "", toJid |-> ""]
NoError == [code |-> "", message |-> ""]

errorShape(code, message) == [code |-> code, message |-> message]

OkPayload == [Undefined EXCEPT !.kind = "ok"]
HealthPayload == [Undefined EXCEPT !.kind = "health"]
StatusPayload == [Undefined EXCEPT !.kind = "status"]
PresencePayload == [Undefined EXCEPT !.kind = "presence"]
TickPayload == [Undefined EXCEPT !.kind = "tick"]
BusPayload == [Undefined EXCEPT !.kind = "agent-stream"]
ShutdownPayload == [Undefined EXCEPT !.kind = "shutdown"]
SnapshotPayload == [Undefined EXCEPT !.kind = "snapshot"]

\* Variant of Trim: the text is taken as it comes.
TrimNothing(s) == s

Trim(s) == IF s = " " THEN "" ELSE s

ResFrame(id, ok, payload, error) ==
  [type |-> "res", id |-> id, ok |-> ok, payload |-> payload, error |-> error,
   event |-> "", seq |-> 0, stateVersion |-> NoVersion, reason |-> ""]

EventFrame(event, payload, s, sv) ==
  [type |-> "event", id |-> NoId, ok |-> FALSE, payload |-> payload, error |-> NoError,
   event |-> event, seq |-> s, stateVersion |-> sv, reason |-> ""]

HelloOkFrame(sv) ==
  [type |-> "hello-ok", id |-> NoId, ok |-> FALSE, payload |-> SnapshotPayload,
   error |-> NoError, event |-> "", seq |-> 0, stateVersion |-> sv, reason |-> ""]

HelloErrorFrame(reason, expected) ==
  [type |-> "hello-error", id |-> NoId, ok |-> FALSE, payload |-> Undefined,
   error |-> NoError, event |-> "", seq |-> expected, stateVersion |-> NoVersion,
   reason |-> reason]

\* Frames that validateRequestFrame rejects: a further hello, and frames with and
\* without an id.
InvalidFrames == {HelloFrame(TRUE, 1, 1, "secret"), OtherFrame(NoId), OtherFrame(FrameId)}

(* ------------------------------- state -------------------------------- *)
VARIABLES
  running,        \* the server returned by startGatewayServer has not been closed
  sock,           \* per connection: the ws socket's readyState
  closeCode,      \* per connection: code of the first socket.close() call, 0 if none
  client,         \* per connection: the handler's `client` is non-null
  closed,         \* per connection: the handler's `closed` flag
  handshakeTimer, \* per connection: the handshake timer is armed
  helloWait,      \* per connection: the hello handler awaits getHealthSnapshot
  instanceId,     \* per connection: hello.client.instanceId ("" when absent)
  overflowed,     \* connections a broadcast has found above MAX_BUFFERED_BYTES
  clients,        \* the broadcast set
  wire,           \* per connection: frames handed to an open socket, in order
  reqs,           \* request handlers started, in order of receipt
  seq, presenceVersion, healthVersion,
  dedupe,         \* the dedupe Map, a function from its keys to entries
  entries,        \* the presence registry Map
  systemEvents,   \* number of texts pushed to the system-event queue
  portLog,        \* invocations of the Delivery and Agent ports
  uuids,          \* number of randomUUID() run ids drawn
  eventLog,       \* the seq of every event frame built, in order
  now,            \* Date.now()
  gatewayToken,   \* process.env.CLAWDIS_GATEWAY_TOKEN ("" when unset)
  firstFrame,     \* per connection: the first frame its message handler was given
  badFrames,      \* per connection: frames received after the handshake that are no req
  lastBroadcast,  \* the latest broadcast(): its event name and the clients found slow
  clientSide      \* a GatewayClient: its fields, its sockets and timers, what it called

vars ==
  <<running, sock, closeCode, client, closed, handshakeTimer, helloWait, instanceId,
    overflowed, clients, wire, reqs, seq, presenceVersion, healthVersion, dedupe,
    entries, systemEvents, portLog, uuids, eventLog, now, gatewayToken,
                 firstFrame, badFrames, lastBroadcast, clientSide>>

\* The variables of the server.
serverVars ==
  <<running, sock, closeCode, client, closed, handshakeTimer, helloWait, instanceId,
    overflowed, clients, wire, reqs, seq, presenceVersion, healthVersion, dedupe,
    entries, systemEvents, portLog, uuids, eventLog, now, gatewayToken,
    firstFrame, badFrames, lastBroadcast>>

(* -------------------------- presence registry ------------------------- *)
SelfKey == <<"host", "", 0>>
PresenceKey(inst, c) == IF inst # "" THEN <<"inst", inst, 0>> ELSE <<"conn", "", c>>

initSelfPresence(e, t) ==
  [k \in DOMAIN e \cup {SelfKey} |-> IF k = SelfKey THEN [reason |-> "self", ts |-> t] ELSE e[k]]

ensureSelfPresence(e, t) == IF DOMAIN e = {} THEN initSelfPresence(e, t) ELSE e

\* Variant of touchSelfPresence: an existing self-entry keeps its timestamp.
touchSelfPresenceKeepsTs(e, t) ==
  IF SelfKey \in DOMAIN e THEN e ELSE initSelfPresence(e, t)

touchSelfPresence(e, t) ==
  IF SelfKey \in DOMAIN e THEN [e EXCEPT ![SelfKey].ts = t] ELSE initSelfPresence(e, t)

\* Variant of upsertPresence: an existing entry keeps its timestamp.
upsertPresenceKeepsTs(e0, key, reason, t) ==
  LET e == ensureSelfPresence(e0, t)
  IN  [k \in DOMAIN e \cup {key} |->
         IF k = key THEN [reason |-> reason, ts |-> IF key \in DOMAIN e THEN e[key].ts ELSE t]
                    ELSE e[k]]

upsertPresence(e0, key, reason, t) ==
  LET e == ensureSelfPresence(e0, t)
  IN  [k \in DOMAIN e \cup {key} |-> IF k = key THEN [reason |-> reason, ts |-> t] ELSE e[k]]

RECURSIVE DropOldest(_, _)
DropOldest(e, n) ==
  IF n <= 0 \/ DOMAIN e = {}
    THEN e
    ELSE LET k == CHOOSE k \in DOMAIN e : \A j \in DOMAIN e : e[k].ts <= e[j].ts
         IN  DropOldest([j \in DOMAIN e \ {k} |-> e[j]], n - 1)

listSystemPresence(e0, t) ==
  LET e == ensureSelfPresence(e0, t)
      live == {k \in DOMAIN e : ~(t - e[k].ts > TTL_MS)}
      pruned == [k \in live |-> e[k]]
      capped == DropOldest(pruned, Cardinality(live) - MAX_ENTRIES)
  IN  touchSelfPresence(capped, t)

\* The keys of S in some order.
RECURSIVE SeqOfSet(_)
SeqOfSet(S) ==
  IF S = {} THEN <<>> ELSE LET k == CHOOSE k \in S : TRUE IN <<k>> \o SeqOfSet(S \ {k})

\* The least number of the set T.
Least(T) == CHOOSE x \in T : \A y \in T : x <= y

\* The oldest and the newest timestamp of the keys S of the map e.
MinTs(e, S) == Least({e[j].ts : j \in S})
MaxTs(e, S) == 0 - Least({0 - e[j].ts : j \in S})

\* The keys S of the map e ordered by ts, oldest first, as sort((a, b) => a.ts - b.ts)
\* orders them; every ts of S lies in lo..hi, and the keys of the older half of
\* that range come before the keys of the newer half.
RECURSIVE KeysBetween(_, _, _, _)
KeysBetween(e, S, lo, hi) ==
  IF S = {} THEN <<>>
  ELSE IF lo = hi THEN SeqOfSet(S)
  ELSE KeysBetween(e, {j \in S : e[j].ts <= (lo + hi) \div 2}, lo, (lo + hi) \div 2)
         \o KeysBetween(e, {j \in S : e[j].ts > (lo + hi) \div 2}, (lo + hi) \div 2 + 1, hi)

KeysByTs(e, S) == IF S = {} THEN <<>> ELSE KeysBetween(e, S, MinTs(e, S), MaxTs(e, S))

\* [...entries.values()].sort((a, b) => b.ts - a.ts): the list returned, newest first.
Descending(e, keys) == [n \in 1..Len(keys) |-> e[keys[Len(keys) + 1 - n]]]

presenceList(e) == Descending(e, KeysByTs(e, DOMAIN e))

(* ------------------------------ broadcast ----------------------------- *)
\* The bufferedAmount of each socket is whatever the peer has left unread when a
\* broadcast reads it: BufferReads are the values one broadcast can read.
BufferReads == [Conns -> BufferLevels]

Slow(buf, c) == buf[c] > MAX_BUFFERED_BYTES

\* Variant of Send: a socket that is closing is still written to.
SendWhileClosing(w, s, c, frame) ==
  IF s[c] \in {"open", "closing"} THEN [w EXCEPT ![c] = Append(@, frame)] ELSE w

Send(w, s, c, frame) == IF s[c] = "open" THEN [w EXCEPT ![c] = Append(@, frame)] ELSE w

\* Variant of BroadcastWire: the loop over the clients ends at the first slow one.
BroadcastWireBreak(w, s, buf, frame, dropIfSlow) ==
  [c \in Conns |->
     IF /\ c \in clients /\ ~Slow(buf, c) /\ s[c] = "open"
        /\ \A d \in clients : d < c => ~Slow(buf, d)
       THEN Append(w[c], frame)
       ELSE w[c]]

BroadcastWire(w, s, buf, frame, dropIfSlow) ==
  [c \in Conns |->
     IF c \in clients /\ ~Slow(buf, c) /\ s[c] = "open" THEN Append(w[c], frame) ELSE w[c]]

BroadcastSock(s, buf, dropIfSlow) ==
  [c \in Conns |->
     IF c \in clients /\ Slow(buf, c) /\ ~dropIfSlow /\ s[c] = "open" THEN "closing"
                                                                       ELSE s[c]]

BroadcastCode(cc, s, buf, dropIfSlow) ==
  [c \in Conns |->
     IF c \in clients /\ Slow(buf, c) /\ ~dropIfSlow /\ s[c] = "open" THEN 1008 ELSE cc[c]]

\* The clients one broadcast finds above MAX_BUFFERED_BYTES.
SlowClients(buf) == {c \in clients : Slow(buf, c)}

Overflowed(buf) == overflowed \cup {c \in clients : Slow(buf, c)}

(* --------------------------- gateway client --------------------------- *)
\* client.ts: one GatewayClient, the WebSockets it creates, its reconnect timers, the
\* settlements of its request promises and the callbacks it invokes, each handler and
\* method as a function of that state, statement by statement.
NoSocket == 0
NullSeq == 0 - 1

\* callGateway's closure: `settled`, the timeout timer, the requests whose promise its
\* onHelloOk awaits.
NoCall ==
  [active |-> FALSE, expectFinal |-> FALSE, settled |-> FALSE, timer |-> FALSE,
   awaits |-> {}, outcome |-> ""]

\* new GatewayClient(opts): ws = null, pending empty, backoffMs = 1000, closed = false,
\* lastSeq = null; nothing created, scheduled or called yet. serverSeq is the seq of
\* the gateway the client talks to.
NewClient ==
  [ws |-> NoSocket, pending |-> {}, backoffMs |-> 1000, closed |-> FALSE,
   lastSeq |-> NullSeq,
   sockets |-> <<>>, timers |-> <<>>, requests |-> 0, settled |-> <<>>,
   callbacks |-> <<>>, serverSeq |-> 0, call |-> NoCall]

Min(a, b) == IF a < b THEN a ELSE b

\* Variant of start: a stopped client connects all the same.
startUnchecked(g) ==
  [g EXCEPT !.sockets = Append(@, [state |-> "connecting", greeted |-> FALSE,
                                   frames |-> <<>>]),
            !.ws = Len(g.sockets) + 1]

\* start(): if (this.closed) return; this.ws = new WebSocket(url)
start(g) ==
  IF g.closed THEN g
  ELSE [g EXCEPT !.sockets = Append(@, [state |-> "connecting", greeted |-> FALSE,
                                        frames |-> <<>>]),
                 !.ws = Len(g.sockets) + 1]

\* ws?.close() on socket s: the closing handshake starts, the close event comes later.
wsClose(g, s) ==
  IF s # NoSocket /\ g.sockets[s].state \in {"connecting", "open"}
    THEN [g EXCEPT !.sockets[s].state = "closing"]
    ELSE g

\* this.ws?.send(frame)
wsSend(g, frame) ==
  IF g.ws = NoSocket THEN g ELSE [g EXCEPT !.sockets[g.ws].frames = Append(@, frame)]

\* for (const [, p] of this.pending) p.reject(err), in the order of insertion
RECURSIVE rejectEach(_, _)
rejectEach(log, ids) ==
  IF ids = {} THEN log
  ELSE rejectEach(Append(log, [id |-> Least(ids), how |-> "reject"]), ids \ {Least(ids)})

\* Variant of flushPendingErrors: the table is cleared and nothing is rejected.
flushPendingSilently(g) == [g EXCEPT !.pending = {}]

flushPendingErrors(g) ==
  [g EXCEPT !.settled = rejectEach(@, {p.id : p \in g.pending}), !.pending = {}]

\* stop(): closed = true; ws?.close(); ws = null; flushPendingErrors()
stop(g) ==
  flushPendingErrors([wsClose([g EXCEPT !.closed = TRUE], g.ws) EXCEPT !.ws = NoSocket])

\* Variant of nextBackoff: the delay doubles without a cap.
nextBackoffUncapped(b) == b * 2

\* Math.min(this.backoffMs * 2, 30_000)
nextBackoff(b) == Min(b * 2, 30000)

\* scheduleReconnect(): nothing once closed; else a timer of backoffMs, then the doubling.
scheduleReconnect(g) ==
  IF g.closed THEN g
  ELSE [g EXCEPT !.timers = Append(@, [delay |-> g.backoffMs, armed |-> TRUE]),
                 !.backoffMs = nextBackoff(g.backoffMs)]

\* request(): throws unless ws is OPEN; else a fresh id enters pending and the frame
\* is sent.
CanRequest(g) == g.ws # NoSocket /\ g.sockets[g.ws].state = "open"

request(g, expectFinal) ==
  wsSend([g EXCEPT !.requests = @ + 1,
                   !.pending = @ \cup {[id |-> g.requests + 1, expectFinal |-> expectFinal]}],
         "req")

\* callGateway's stop(err, value): the first call settles the promise and clears the
\* timeout timer.
callStop(g, outcome) ==
  IF g.call.settled THEN g
  ELSE [g EXCEPT !.call.settled = TRUE, !.call.timer = FALSE, !.call.outcome = outcome]

Called(kind, expected, received) ==
  [kind |-> kind, expected |-> expected, received |-> received]

\* opts.onHelloOk: callGateway's sends the request; when request() throws, its catch
\* stops the client and rejects.
onHelloOk(g) ==
  LET told == [g EXCEPT !.callbacks = Append(@, Called("helloOk", 0, 0))]
  IN  IF ~g.call.active THEN told
      ELSE IF CanRequest(told)
        THEN [request(told, g.call.expectFinal) EXCEPT !.call.awaits = @ \cup {g.requests + 1}]
        ELSE callStop(stop(told), "rejected")

\* opts.onClose: callGateway's rejects the promise.
onClose(g) ==
  LET told == [g EXCEPT !.callbacks = Append(@, Called("close", 0, 0))]
  IN  IF g.call.active THEN callStop(told, "rejected") ELSE told

\* Variant of onEvent: lastSeq starts anew with every socket, so the first event after
\* a reconnect reports nothing.
onEventForgetful(g, received) ==
  LET first == \A k \in DOMAIN g.callbacks :
                  g.callbacks[k].kind = "event"
                    => \E j \in (k + 1)..Len(g.callbacks) : g.callbacks[j].kind = "close"
      last == IF first THEN NullSeq ELSE g.lastSeq
      gap == received # NullSeq /\ last # NullSeq /\ received > last + 1
      told == IF gap THEN Append(g.callbacks, Called("gap", last + 1, received))
                     ELSE g.callbacks
  IN  [g EXCEPT !.lastSeq = IF received # NullSeq THEN received ELSE @,
                !.callbacks = Append(told, Called("event", 0, received))]

\* handleMessage, type "event": onGap when a seq was recorded and this one is beyond
\* its successor, then lastSeq = seq, then onEvent. NullSeq is a frame without seq.
onEvent(g, received) ==
  LET gap == received # NullSeq /\ g.lastSeq # NullSeq /\ received > g.lastSeq + 1
      told == IF gap THEN Append(g.callbacks, Called("gap", g.lastSeq + 1, received))
                     ELSE g.callbacks
  IN  [g EXCEPT !.lastSeq = IF received # NullSeq THEN received ELSE @,
                !.callbacks = Append(told, Called("event", 0, received))]

\* handleMessage, type "res": no entry, return; an "accepted" payload of a request that
\* expects a final answer, return; else delete the entry and resolve or reject.
onRes(g, frame) ==
  LET found == {p \in g.pending : ReqId(p.id) = frame.id}
  IN  IF found = {} THEN g
      ELSE IF (\E p \in found : p.expectFinal) /\ frame.payload.status = "accepted" THEN g
      ELSE [g EXCEPT !.pending = @ \ found,
                     !.settled = Append(@, [id |-> frame.id[2],
                                            how |-> IF frame.ok THEN "resolve" ELSE "reject"])]

handleMessage(g, frame) ==
  CASE frame.type = "hello-ok" -> onHelloOk([g EXCEPT !.backoffMs = 1000])
    [] frame.type = "hello-error" -> wsClose(g, g.ws)
    [] frame.type = "event" -> onEvent(g, frame.seq)
    [] frame.type = "res" -> onRes(g, frame)
    [] OTHER -> g

\* The requests callGateway awaits that have been settled, and how the first was.
Answered(g) == {id \in g.call.awaits : \A p \in g.pending : p.id # id}
HowSettled(g, id) == g.settled[CHOOSE k \in DOMAIN g.settled : g.settled[k].id = id].how

\* callGateway's onHelloOk after `await client.request(...)`: client.stop(), then
\* stop(undefined, result) or stop(err). It runs when the handler that settled the
\* request has returned.
resume(g) ==
  IF Answered(g) = {} THEN g
  ELSE callStop(stop([g EXCEPT !.call.awaits = {}]),
                IF HowSettled(g, Least(Answered(g))) = "resolve" THEN "resolved"
                                                                 ELSE "rejected")

\* The caller's start().
Start ==
  /\ clientSide' = start(clientSide)
  /\ UNCHANGED serverVars

\* The caller's stop().
Stop ==
  /\ clientSide' = stop(clientSide)
  /\ UNCHANGED serverVars

\* The caller's request(method, params, {expectFinal}).
Request(expectFinal) ==
  /\ CanRequest(clientSide)
  /\ clientSide' = request(clientSide, expectFinal)
  /\ UNCHANGED serverVars

\* ws.on("open"): sendHello()
SocketOpens(s) ==
  /\ s \in DOMAIN clientSide.sockets
  /\ clientSide.sockets[s].state = "connecting"
  /\ clientSide' = wsSend([clientSide EXCEPT !.sockets[s].state = "open"], "hello")
  /\ UNCHANGED serverVars

\* ws.on("message"): handleMessage(data)
Receive(s, frame) ==
  /\ s \in DOMAIN clientSide.sockets
  /\ clientSide.sockets[s].state \in {"open", "closing"}
  /\ clientSide' = resume(handleMessage(clientSide, frame))
  /\ UNCHANGED serverVars

\* The gateway answers the hello of socket s, with hello-ok or with hello-error.
ReceiveHelloAnswer(s, frame) ==
  /\ s \in DOMAIN clientSide.sockets
  /\ clientSide.sockets[s].state \in {"open", "closing"}
  /\ ~clientSide.sockets[s].greeted
  /\ clientSide' = resume(handleMessage([clientSide EXCEPT !.sockets[s].greeted = TRUE],
                                        frame))
  /\ UNCHANGED serverVars

\* The gateway broadcasts an event with the next seq; it reaches socket s.
ReceiveEvent(s) ==
  /\ s \in DOMAIN clientSide.sockets
  /\ clientSide.sockets[s].state \in {"open", "closing"}
  /\ clientSide' =
       handleMessage([clientSide EXCEPT !.serverSeq = @ + 1],
                     EventFrame("tick", TickPayload, clientSide.serverSeq + 1, NoVersion))
  /\ UNCHANGED serverVars

\* The gateway broadcasts an event that does not reach the client: no socket of it is
\* in the broadcast set, or the broadcast skipped it as slow.
MissEvent ==
  /\ clientSide' = [clientSide EXCEPT !.serverSeq = @ + 1]
  /\ UNCHANGED serverVars

\* ws.on("close"): ws = null; flushPendingErrors(); scheduleReconnect(); opts.onClose
SocketCloses(s) ==
  /\ s \in DOMAIN clientSide.sockets
  /\ clientSide.sockets[s].state # "closed"
  /\ clientSide' =
       resume(onClose(scheduleReconnect(flushPendingErrors(
         [clientSide EXCEPT !.sockets[s].state = "closed", !.ws = NoSocket]))))
  /\ UNCHANGED serverVars

\* A reconnect timer fires: start()
TimerFires(t) ==
  /\ t \in DOMAIN clientSide.timers
  /\ clientSide.timers[t].armed
  /\ clientSide' = start([clientSide EXCEPT !.timers[t].armed = FALSE])
  /\ UNCHANGED serverVars

\* callGateway(opts): a new client with its callbacks, the timeout timer, client.start()
CallGateway(expectFinal) ==
  /\ ~clientSide.call.active
  /\ clientSide.sockets = <<>>
  /\ ~clientSide.closed
  /\ clientSide' = start([clientSide EXCEPT !.call = [NoCall EXCEPT !.active = TRUE,
                                                       !.expectFinal = expectFinal,
                                                       !.timer = TRUE]])
  /\ UNCHANGED serverVars

\* callGateway's timeout timer fires: client.stop(); stop(new Error("gateway timeout"))
CallTimeout ==
  /\ clientSide.call.timer
  /\ clientSide' = callStop(stop([clientSide EXCEPT !.call.timer = FALSE]), "rejected")
  /\ UNCHANGED serverVars

(* ------------------------------- Init --------------------------------- *)
Init ==
  /\ running = TRUE
  /\ sock = [c \in Conns |-> "none"]
  /\ closeCode = [c \in Conns |-> 0]
  /\ client = [c \in Conns |-> FALSE]
  /\ closed = [c \in Conns |-> FALSE]
  /\ handshakeTimer = [c \in Conns |-> FALSE]
  /\ helloWait = [c \in Conns |-> 0]
  /\ instanceId = [c \in Conns |-> ""]
  /\ overflowed = {}
  /\ clients = {}
  /\ wire = [c \in Conns |-> <<>>]
  /\ reqs = <<>>
  /\ seq = 0
  /\ presenceVersion = 1
  /\ healthVersion = 1
  /\ dedupe = <<>>
  /\ entries = initSelfPresence(<<>>, 0)
  /\ systemEvents = 0
  /\ portLog = <<>>
  /\ uuids = 0
  /\ eventLog = <<>>
  /\ now = 0
  /\ gatewayToken = ""
  /\ firstFrame = [c \in Conns |-> NoFrame]
  /\ badFrames = [c \in Conns |-> <<>>]
  /\ lastBroadcast = [event |-> "", slow |-> {}]
  /\ clientSide = NewClient

(* --------------------------- connection ------------------------------- *)
\* wss.on("connection"): a socket is accepted and its handshake timer armed.
Connect(c) ==
  /\ running
  /\ sock[c] = "none"
  /\ \A d \in Conns : d < c => sock[d] # "none"
  /\ sock' = [sock EXCEPT ![c] = "open"]
  /\ handshakeTimer' = [handshakeTimer EXCEPT ![c] = TRUE]
  /\ UNCHANGED <<running, closeCode, client, closed, helloWait, instanceId, overflowed,
                 clients, wire, reqs, seq, presenceVersion, healthVersion, dedupe, entries,
                 systemEvents, portLog, uuids, eventLog, now, gatewayToken,
                 firstFrame, badFrames, lastBroadcast, clientSide>>

\* The connection's close(): no effect once closed, else it leaves the broadcast set.
CloseSock(s, c) == IF s[c] = "open" THEN [s EXCEPT ![c] = "closing"] ELSE s
CloseCode(cc, s, c, code) == IF s[c] = "open" THEN [cc EXCEPT ![c] = code] ELSE cc

\* Variant of HelloReject: the client is registered although the hello was refused.
HelloRejectKeepsClient(c, reason, expected, code) ==
  /\ wire' = Send(wire, sock, c, HelloErrorFrame(reason, expected))
  /\ sock' = CloseSock(sock, c)
  /\ closeCode' = CloseCode(closeCode, sock, c, code)
  /\ closed' = [closed EXCEPT ![c] = TRUE]
  /\ handshakeTimer' = [handshakeTimer EXCEPT ![c] = FALSE]
  /\ client' = [client EXCEPT ![c] = TRUE]
  /\ clients' = clients \cup {c}
  /\ UNCHANGED <<running, helloWait, instanceId, overflowed, reqs, seq,
                 presenceVersion, healthVersion, dedupe, entries, systemEvents, portLog,
                 uuids, eventLog, now, gatewayToken, badFrames, lastBroadcast, clientSide>>

\* First frame, rejected: hello-error, socket.close(code), close().
HelloReject(c, reason, expected, code) ==
  /\ wire' = Send(wire, sock, c, HelloErrorFrame(reason, expected))
  /\ sock' = CloseSock(sock, c)
  /\ closeCode' = CloseCode(closeCode, sock, c, code)
  /\ closed' = [closed EXCEPT ![c] = TRUE]
  /\ handshakeTimer' = [handshakeTimer EXCEPT ![c] = FALSE]
  /\ UNCHANGED <<running, client, helloWait, instanceId, overflowed, clients, reqs, seq,
                 presenceVersion, healthVersion, dedupe, entries, systemEvents, portLog,
                 uuids, eventLog, now, gatewayToken,
                 badFrames, lastBroadcast, clientSide>>

\* First frame, accepted: the connection joins the broadcast set, its presence entry is
\* written, the snapshot is built, and the handler suspends on getHealthSnapshot().
HelloAccept(c, inst) ==
  /\ client' = [client EXCEPT ![c] = TRUE]
  /\ clients' = clients \cup {c}
  /\ instanceId' = [instanceId EXCEPT ![c] = inst]
  /\ entries' = listSystemPresence(
                  upsertPresence(entries, PresenceKey(inst, c), "connect", now), now)
  /\ presenceVersion' = presenceVersion + 1
  /\ helloWait' = [helloWait EXCEPT ![c] = presenceVersion + 1]
  /\ handshakeTimer' = [handshakeTimer EXCEPT ![c] = FALSE]
  /\ UNCHANGED <<running, sock, closeCode, closed, overflowed, wire,
                 reqs, seq, healthVersion, dedupe, systemEvents, portLog, uuids, eventLog,
                 now, gatewayToken,
                 badFrames, lastBroadcast, clientSide>>

\* Variant of RecvHello: the token is checked before the protocol range.
RecvHelloTokenFirst(c, valid, minProtocol, maxProtocol, token, inst) ==
  /\ sock[c] = "open"
  /\ ~closed[c]
  /\ ~client[c]
  /\ firstFrame' = [firstFrame EXCEPT ![c] = HelloFrame(valid, minProtocol, maxProtocol, token)]
  /\ IF ~valid
       THEN HelloReject(c, "invalid hello", 0, 1008)
       ELSE IF gatewayToken # "" /\ token # gatewayToken
         THEN HelloReject(c, "unauthorized", 0, 1008)
         ELSE IF maxProtocol < PROTOCOL_VERSION \/ minProtocol > PROTOCOL_VERSION
           THEN HelloReject(c, "protocol mismatch", PROTOCOL_VERSION, 1002)
           ELSE HelloAccept(c, inst)

\* Variant of RecvHello: a hello without auth.token passes the token check.
RecvHelloAnonymous(c, valid, minProtocol, maxProtocol, token, inst) ==
  /\ sock[c] = "open"
  /\ ~closed[c]
  /\ ~client[c]
  /\ firstFrame' = [firstFrame EXCEPT ![c] = HelloFrame(valid, minProtocol, maxProtocol, token)]
  /\ IF ~valid
       THEN HelloReject(c, "invalid hello", 0, 1008)
       ELSE IF maxProtocol < PROTOCOL_VERSION \/ minProtocol > PROTOCOL_VERSION
         THEN HelloReject(c, "protocol mismatch", PROTOCOL_VERSION, 1002)
         ELSE IF gatewayToken # "" /\ token # "" /\ token # gatewayToken
           THEN HelloReject(c, "unauthorized", 0, 1008)
           ELSE HelloAccept(c, inst)

RecvHello(c, valid, minProtocol, maxProtocol, token, inst) ==
  /\ sock[c] = "open"
  /\ ~closed[c]
  /\ ~client[c]
  /\ firstFrame' = [firstFrame EXCEPT ![c] = HelloFrame(valid, minProtocol, maxProtocol, token)]
  /\ IF ~valid
       THEN HelloReject(c, "invalid hello", 0, 1008)
       ELSE IF maxProtocol < PROTOCOL_VERSION \/ minProtocol > PROTOCOL_VERSION
         THEN HelloReject(c, "protocol mismatch", PROTOCOL_VERSION, 1002)
         ELSE IF gatewayToken # "" /\ token # gatewayToken
           THEN HelloReject(c, "unauthorized", 0, 1008)
           ELSE HelloAccept(c, inst)

\* getHealthSnapshot() settles for the hello handler: hello-ok on success; on failure the
\* handler's catch logs and, the client being set, sends nothing.
HelloHealthDone(c, ok) ==
  /\ helloWait[c] # 0
  /\ helloWait' = [helloWait EXCEPT ![c] = 0]
  /\ IF ok
       THEN /\ healthVersion' = healthVersion + 1
            /\ wire' = Send(wire, sock, c,
                   HelloOkFrame([presence |-> helloWait[c], health |-> healthVersion + 1]))
       ELSE UNCHANGED <<healthVersion, wire>>
  /\ UNCHANGED <<running, sock, closeCode, client, closed, handshakeTimer, instanceId, overflowed,
                 clients, reqs, seq, presenceVersion, dedupe, entries, systemEvents,
                 portLog, uuids, eventLog, now, gatewayToken,
                 firstFrame, badFrames, lastBroadcast, clientSide>>

\* Variant of HandshakeTimeout: the timeout is reported with a hello-error.
HandshakeTimeoutReported(c) ==
  /\ handshakeTimer[c]
  /\ ~client[c]
  /\ handshakeTimer' = [handshakeTimer EXCEPT ![c] = FALSE]
  /\ closed' = [closed EXCEPT ![c] = TRUE]
  /\ wire' = Send(wire, sock, c, HelloErrorFrame("handshake timeout", 0))
  /\ sock' = CloseSock(sock, c)
  /\ closeCode' = CloseCode(closeCode, sock, c, 1000)
  /\ UNCHANGED <<running, client, helloWait, instanceId, overflowed, clients, reqs,
                 seq, presenceVersion, healthVersion, dedupe, entries, systemEvents,
                 portLog, uuids, eventLog, now, gatewayToken, firstFrame, badFrames,
                 lastBroadcast, clientSide>>

\* The handshake timer fires before a hello was accepted: close(). (Once `client` is
\* set the callback does nothing, so the timer counts as armed only until then.)
HandshakeTimeout(c) ==
  /\ handshakeTimer[c]
  /\ ~client[c]
  /\ handshakeTimer' = [handshakeTimer EXCEPT ![c] = FALSE]
  /\ closed' = [closed EXCEPT ![c] = TRUE]
  /\ sock' = CloseSock(sock, c)
  /\ closeCode' = CloseCode(closeCode, sock, c, 1000)
  /\ UNCHANGED <<running, client, helloWait, instanceId, overflowed, clients, wire, reqs,
                 seq, presenceVersion, healthVersion, dedupe, entries, systemEvents,
                 portLog, uuids, eventLog, now, gatewayToken,
                 firstFrame, badFrames, lastBroadcast, clientSide>>

\* The environment sets or clears process.env.CLAWDIS_GATEWAY_TOKEN, which
\* getGatewayToken() reads at every hello.
SetToken(token) ==
  /\ gatewayToken' = token
  /\ UNCHANGED <<running, sock, closeCode, client, closed, handshakeTimer, helloWait,
                 instanceId, overflowed, clients, wire, reqs, seq, presenceVersion,
                 healthVersion, dedupe, entries, systemEvents, portLog, uuids, eventLog,
                 now, firstFrame, badFrames, lastBroadcast, clientSide>>

\* Variant of RecvUnparseable: the catch calls close() whether or not there is a client.
RecvUnparseableClosing(c) ==
  /\ sock[c] = "open"
  /\ ~closed[c]
  /\ IF client[c]
       THEN /\ badFrames' = [badFrames EXCEPT ![c] = Append(@, UnparseableFrame)]
            /\ UNCHANGED firstFrame
       ELSE /\ firstFrame' = [firstFrame EXCEPT ![c] = UnparseableFrame]
            /\ UNCHANGED badFrames
  /\ closed' = [closed EXCEPT ![c] = TRUE]
  /\ handshakeTimer' = [handshakeTimer EXCEPT ![c] = FALSE]
  /\ sock' = CloseSock(sock, c)
  /\ closeCode' = CloseCode(closeCode, sock, c, 1000)
  /\ UNCHANGED <<running, client, helloWait, instanceId, overflowed, clients, wire, reqs,
                 seq, presenceVersion, healthVersion, dedupe, entries, systemEvents,
                 portLog, uuids, eventLog, now, gatewayToken, lastBroadcast, clientSide>>

\* A message that JSON.parse rejects: the handler's catch logs it, and calls close()
\* only while the connection has no client.
RecvUnparseable(c) ==
  /\ sock[c] = "open"
  /\ ~closed[c]
  /\ IF client[c]
       THEN /\ badFrames' = [badFrames EXCEPT ![c] = Append(@, UnparseableFrame)]
            /\ UNCHANGED <<firstFrame, closed, handshakeTimer, sock, closeCode>>
       ELSE /\ firstFrame' = [firstFrame EXCEPT ![c] = UnparseableFrame]
            /\ closed' = [closed EXCEPT ![c] = TRUE]
            /\ handshakeTimer' = [handshakeTimer EXCEPT ![c] = FALSE]
            /\ sock' = CloseSock(sock, c)
            /\ closeCode' = CloseCode(closeCode, sock, c, 1000)
            /\ UNCHANGED badFrames
  /\ UNCHANGED <<running, client, helloWait, instanceId, overflowed, clients, wire, reqs,
                 seq, presenceVersion, healthVersion, dedupe, entries, systemEvents,
                 portLog, uuids, eventLog, now, gatewayToken, lastBroadcast, clientSide>>

\* Variant of RecvInvalidFrame: a further hello is taken as a new handshake.
RecvInvalidFrameRehello(c, frame) ==
  /\ sock[c] = "open"
  /\ ~closed[c]
  /\ client[c]
  /\ badFrames' = [badFrames EXCEPT ![c] = Append(@, frame)]
  /\ IF frame.kind = "hello"
       THEN /\ presenceVersion' = presenceVersion + 1
            /\ wire' = Send(wire, sock, c,
                         HelloOkFrame([presence |-> presenceVersion + 1,
                                       health |-> healthVersion]))
       ELSE /\ UNCHANGED presenceVersion
            /\ wire' = Send(wire, sock, c,
                         ResFrame(IF frame.id = NoId THEN InvalidId ELSE frame.id, FALSE,
                                  Undefined,
                                  errorShape("INVALID_REQUEST", "invalid request frame")))
  /\ UNCHANGED <<running, sock, closeCode, client, closed, handshakeTimer, helloWait,
                 instanceId, overflowed, clients, reqs, seq,
                 healthVersion, dedupe, entries, systemEvents, portLog, uuids, eventLog,
                 now, gatewayToken, firstFrame, lastBroadcast, clientSide>>

\* A JSON frame, received once the connection has a client, that validateRequestFrame
\* rejects (a further hello among them): res with the frame's id, or "invalid".
RecvInvalidFrame(c, frame) ==
  /\ sock[c] = "open"
  /\ ~closed[c]
  /\ client[c]
  /\ badFrames' = [badFrames EXCEPT ![c] = Append(@, frame)]
  /\ wire' = Send(wire, sock, c,
               ResFrame(IF frame.id = NoId THEN InvalidId ELSE frame.id, FALSE, Undefined,
                        errorShape("INVALID_REQUEST", "invalid request frame")))
  /\ UNCHANGED <<running, sock, closeCode, client, closed, handshakeTimer, helloWait,
                 instanceId, overflowed, clients, reqs, seq, presenceVersion,
                 healthVersion, dedupe, entries, systemEvents, portLog, uuids, eventLog,
                 now, gatewayToken, firstFrame, lastBroadcast, clientSide>>

(* ----------------------------- requests ------------------------------ *)
\* A frame reaches the request dispatch only on an open socket whose handler has a client.
CanRecv(c) == sock[c] = "open" /\ ~closed[c] /\ client[c]

NewReq(c, method, idem, runId, st) ==
  [conn |-> c, id |-> Len(reqs) + 1, method |-> method, idem |-> idem, runId |-> runId,
   st |-> st, at |-> now, text |-> ""]

respond(w, s, r, ok, payload, error) ==
  Send(w, s, r.conn, ResFrame(ReqId(r.id), ok, payload, error))

DedupeKey(method, idem) == <<method, idem>>

DedupeSet(d, key, entry) ==
  [k \in DOMAIN d \cup {key} |-> IF k = key THEN entry ELSE d[k]]

\* Variant of Cache: the outcome is dropped when the requesting socket is gone.
CacheIfOpen(d, r, t, ok, payload, error) ==
  IF sock[r.conn] = "open"
    THEN DedupeSet(d, DedupeKey(r.method, r.idem),
                   [ts |-> t, ok |-> ok, payload |-> payload, error |-> error])
    ELSE d

\* dedupe.set(`<method>:<idem>`, {ts, ok, payload, error}) after the port has settled.
Cache(d, r, t, ok, payload, error) ==
  DedupeSet(d, DedupeKey(r.method, r.idem),
            [ts |-> t, ok |-> ok, payload |-> payload, error |-> error])

\* Variant of replay: the cached error is not passed on.
replayNoError(w, s, r, cached) == respond(w, s, r, cached.ok, cached.payload, NoError)

\* respond(cached.ok, cached.payload, cached.error)
replay(w, s, r, cached) == respond(w, s, r, cached.ok, cached.payload, cached.error)

LogEvent(log, frame) == Append(log, frame.seq)

\* case "health" / case "status": the handler suspends on the port.
ReqPort(c, method) ==
  /\ CanRecv(c)
  /\ method \in {"health", "status"}
  /\ reqs' = Append(reqs, NewReq(c, method, "", NoRun, "await"))
  /\ UNCHANGED <<running, sock, closeCode, client, closed, handshakeTimer, helloWait,
                 instanceId, overflowed, clients, wire, seq, presenceVersion,
                 healthVersion, dedupe, entries, systemEvents, portLog, uuids, eventLog,
                 now, gatewayToken,
                 firstFrame, badFrames, lastBroadcast, clientSide>>

\* The Health or Status port settles. A rejection lands in the handler's catch, which
\* logs and sends nothing.
PortReturn(i, ok) ==
  /\ i \in DOMAIN reqs
  /\ reqs[i].st = "await"
  /\ reqs[i].method \in {"health", "status"}
  /\ reqs' = [reqs EXCEPT ![i].st = "done"]
  /\ IF ok
       THEN /\ healthVersion' =
                 IF reqs[i].method = "health" THEN healthVersion + 1 ELSE healthVersion
            /\ wire' = respond(wire, sock, reqs[i], TRUE,
                   IF reqs[i].method = "health" THEN HealthPayload ELSE StatusPayload,
                   NoError)
       ELSE UNCHANGED <<healthVersion, wire>>
  /\ UNCHANGED <<running, sock, closeCode, client, closed, handshakeTimer, helloWait,
                 instanceId, overflowed, clients, seq, presenceVersion, dedupe, entries,
                 systemEvents, portLog, uuids, eventLog, now, gatewayToken,
                 firstFrame, badFrames, lastBroadcast, clientSide>>

\* case "system-presence"
ReqSystemPresence(c) ==
  /\ CanRecv(c)
  /\ LET r == NewReq(c, "system-presence", "", NoRun, "done")
     IN  /\ reqs' = Append(reqs, r)
         /\ entries' = listSystemPresence(entries, now)
         /\ wire' = respond(wire, sock, r, TRUE, PresencePayload, NoError)
  /\ UNCHANGED <<running, sock, closeCode, client, closed, handshakeTimer, helloWait,
                 instanceId, overflowed, clients, seq, presenceVersion, healthVersion,
                 dedupe, systemEvents, portLog, uuids, eventLog, now, gatewayToken,
                 firstFrame, badFrames, lastBroadcast, clientSide>>

\* case "system-event": the presence broadcast is made before respond().
ReqSystemEvent(c, text, buf) ==
  /\ CanRecv(c)
  /\ LET r == [NewReq(c, "system-event", "", NoRun, "done") EXCEPT !.text = text]
     IN  /\ reqs' = Append(reqs, r)
         /\ IF Trim(text) = ""
              THEN /\ wire' = respond(wire, sock, r, FALSE, Undefined,
                          errorShape("INVALID_REQUEST", "text required"))
                   /\ UNCHANGED <<systemEvents, presenceVersion, seq, entries, eventLog,
                                  overflowed, lastBroadcast>>
              ELSE LET frame == EventFrame("presence", PresencePayload, seq + 1,
                                  [presence |-> presenceVersion + 1,
                                   health |-> healthVersion])
                   IN  /\ systemEvents' = systemEvents + 1
                       /\ presenceVersion' = presenceVersion + 1
                       /\ seq' = seq + 1
                       /\ entries' = listSystemPresence(entries, now)
                       /\ eventLog' = LogEvent(eventLog, frame)
                       /\ overflowed' = Overflowed(buf)
                       /\ lastBroadcast' = [event |-> "presence", slow |-> SlowClients(buf)]
                       /\ wire' = respond(BroadcastWire(wire, sock, buf, frame, TRUE),
                                          sock, r, TRUE, OkPayload, NoError)
  /\ UNCHANGED <<running, sock, closeCode, client, closed, handshakeTimer, helloWait,
                 instanceId, clients, healthVersion, dedupe, portLog, uuids, now,
                 gatewayToken,
                 firstFrame, badFrames, clientSide>>

\* Variant of ReqPlain: the answer waits while an earlier request of the connection is
\* suspended on a port.
ReqPlainQueued(c, method) ==
  /\ CanRecv(c)
  /\ method \in {"set-heartbeats", "bogus"}
  /\ LET r == NewReq(c, method, "", NoRun, "done")
         held == \E i \in DOMAIN reqs : reqs[i].conn = c /\ reqs[i].st = "await"
     IN  /\ reqs' = Append(reqs, r)
         /\ wire' = IF held THEN wire
                      ELSE IF method = "set-heartbeats"
                        THEN respond(wire, sock, r, TRUE, OkPayload, NoError)
                        ELSE respond(wire, sock, r, FALSE, Undefined,
                               errorShape("INVALID_REQUEST", "unknown method: " \o method))
  /\ UNCHANGED <<running, sock, closeCode, client, closed, handshakeTimer, helloWait,
                 instanceId, overflowed, clients, seq, presenceVersion, healthVersion,
                 dedupe, entries, systemEvents, portLog, uuids, eventLog, now, gatewayToken,
                 firstFrame, badFrames, lastBroadcast, clientSide>>

\* case "set-heartbeats", and the default branch for a method outside METHODS.
ReqPlain(c, method) ==
  /\ CanRecv(c)
  /\ method \in {"set-heartbeats", "bogus"}
  /\ LET r == NewReq(c, method, "", NoRun, "done")
     IN  /\ reqs' = Append(reqs, r)
         /\ wire' = IF method = "set-heartbeats"
                      THEN respond(wire, sock, r, TRUE, OkPayload, NoError)
                      ELSE respond(wire, sock, r, FALSE, Undefined,
                             errorShape("INVALID_REQUEST", "unknown method: " \o method))
  /\ UNCHANGED <<running, sock, closeCode, client, closed, handshakeTimer, helloWait,
                 instanceId, overflowed, clients, seq, presenceVersion, healthVersion,
                 dedupe, entries, systemEvents, portLog, uuids, eventLog, now, gatewayToken,
                 firstFrame, badFrames, lastBroadcast, clientSide>>

LogPort(log, method, idem, t) == Append(log, [method |-> method, idem |-> idem, at |-> t])

\* Variant of ReqSend: the params are not validated.
ReqSendUnchecked(c, idem) ==
  /\ CanRecv(c)
  /\ LET key == DedupeKey("send", idem)
         hit == key \in DOMAIN dedupe
         r == NewReq(c, "send", idem, NoRun, IF hit THEN "done" ELSE "await")
     IN  /\ reqs' = Append(reqs, r)
         /\ wire' = IF hit THEN replay(wire, sock, r, dedupe[key]) ELSE wire
         /\ portLog' = IF ~hit THEN LogPort(portLog, "send", idem, now) ELSE portLog
  /\ UNCHANGED <<running, sock, closeCode, client, closed, handshakeTimer, helloWait,
                 instanceId, overflowed, clients, seq, presenceVersion, healthVersion,
                 dedupe, entries, systemEvents, uuids, eventLog, now, gatewayToken,
                 firstFrame, badFrames, lastBroadcast, clientSide>>

\* case "send", up to the await on the Delivery port.
ReqSend(c, idem) ==
  /\ CanRecv(c)
  /\ LET key == DedupeKey("send", idem)
         hit == idem # "" /\ key \in DOMAIN dedupe
         r == NewReq(c, "send", idem, NoRun, IF idem = "" \/ hit THEN "done" ELSE "await")
     IN  /\ reqs' = Append(reqs, r)
         /\ wire' = IF idem = ""
                      THEN respond(wire, sock, r, FALSE, Undefined,
                             errorShape("INVALID_REQUEST", "invalid send params"))
                      ELSE IF hit
                        THEN replay(wire, sock, r, dedupe[key])
                        ELSE wire
         /\ portLog' = IF idem # "" /\ ~hit THEN LogPort(portLog, "send", idem, now)
                                             ELSE portLog
  /\ UNCHANGED <<running, sock, closeCode, client, closed, handshakeTimer, helloWait,
                 instanceId, overflowed, clients, seq, presenceVersion, healthVersion,
                 dedupe, entries, systemEvents, uuids, eventLog, now, gatewayToken,
                 firstFrame, badFrames, lastBroadcast, clientSide>>

SendPayload(idem, result) ==
  [Undefined EXCEPT !.kind = "send", !.runId = <<"idem", idem, 0>>,
                    !.messageId = result.messageId,
                    !.toJid = IF result.toJid # "" THEN result.toJid
                                                   ELSE "+15550000000@s.whatsapp.net"]

\* The Delivery port settles: the outcome is cached, then respond().
SendReturn(i, ok, result, err) ==
  /\ i \in DOMAIN reqs
  /\ reqs[i].st = "await"
  /\ reqs[i].method = "send"
  /\ reqs' = [reqs EXCEPT ![i].st = "done"]
  /\ LET payload == IF ok THEN SendPayload(reqs[i].idem, result) ELSE Undefined
         error == IF ok THEN NoError ELSE errorShape("UNAVAILABLE", err)
     IN  /\ dedupe' = Cache(dedupe, reqs[i], now, ok, payload, error)
         /\ wire' = respond(wire, sock, reqs[i], ok, payload, error)
  /\ UNCHANGED <<running, sock, closeCode, client, closed, handshakeTimer, helloWait,
                 instanceId, overflowed, clients, seq, presenceVersion, healthVersion,
                 entries, systemEvents, portLog, uuids, eventLog, now, gatewayToken,
                 firstFrame, badFrames, lastBroadcast, clientSide>>

AckPayload(runId) == [Undefined EXCEPT !.kind = "agent", !.runId = runId, !.status = "accepted"]

\* Variant of AckFrame: the acknowledgement goes out as a res frame.
AckFrameAsRes(r, s) == ResFrame(ReqId(r.id), TRUE, AckPayload(r.runId), NoError)

\* Variant of AckFrame: the acknowledgement carries seq as it was before the increment.
AckFrameStale(r, s) == EventFrame("agent", AckPayload(r.runId), s - 1, NoVersion)

\* The acknowledgement event: {type: "event", event: "agent", payload: ackPayload, seq}.
AckFrame(r, s) == EventFrame("agent", AckPayload(r.runId), s, NoVersion)

\* case "agent", up to the await on the Agent port: the acknowledgement takes the next
\* seq and goes to the requesting socket only.
ReqAgent(c, idem, sessionId) ==
  /\ CanRecv(c)
  /\ LET key == DedupeKey("agent", idem)
         hit == idem # "" /\ key \in DOMAIN dedupe
         run == idem # "" /\ ~hit
         runId == IF ~run THEN NoRun
                  ELSE IF sessionId # "" THEN <<"session", sessionId, 0>>
                  ELSE <<"uuid", "", uuids + 1>>
         r == NewReq(c, "agent", idem, runId, IF run THEN "await" ELSE "done")
     IN  /\ reqs' = Append(reqs, r)
         /\ uuids' = IF run /\ sessionId = "" THEN uuids + 1 ELSE uuids
         /\ seq' = IF run THEN seq + 1 ELSE seq
         /\ eventLog' = IF run THEN LogEvent(eventLog, AckFrame(r, seq + 1)) ELSE eventLog
         /\ portLog' = IF run THEN LogPort(portLog, "agent", idem, now) ELSE portLog
         /\ wire' = IF idem = ""
                      THEN respond(wire, sock, r, FALSE, Undefined,
                             errorShape("INVALID_REQUEST", "invalid agent params"))
                      ELSE IF hit
                        THEN replay(wire, sock, r, dedupe[key])
                        ELSE Send(wire, sock, c, AckFrame(r, seq + 1))
  /\ UNCHANGED <<running, sock, closeCode, client, closed, handshakeTimer, helloWait,
                 instanceId, overflowed, clients, presenceVersion, healthVersion,
                 dedupe, entries, systemEvents, now, gatewayToken,
                 firstFrame, badFrames, lastBroadcast, clientSide>>

\* Variant of AgentPayload: the final payload does not carry the run's id.
AgentPayloadNoRun(runId, status, summary) ==
  [Undefined EXCEPT !.kind = "agent", !.runId = NoRun, !.status = status,
                    !.summary = summary]

AgentPayload(runId, status, summary) ==
  [Undefined EXCEPT !.kind = "agent", !.runId = runId, !.status = status,
                    !.summary = summary]

\* The Agent port settles: the outcome is cached, then respond().
AgentReturn(i, ok, err) ==
  /\ i \in DOMAIN reqs
  /\ reqs[i].st = "await"
  /\ reqs[i].method = "agent"
  /\ reqs' = [reqs EXCEPT ![i].st = "done"]
  /\ LET payload == IF ok THEN AgentPayload(reqs[i].runId, "ok", "completed")
                          ELSE AgentPayload(reqs[i].runId, "error", err)
         error == IF ok THEN NoError ELSE errorShape("UNAVAILABLE", err)
     IN  /\ dedupe' = Cache(dedupe, reqs[i], now, ok, payload, error)
         /\ wire' = respond(wire, sock, reqs[i], ok, payload, error)
  /\ UNCHANGED <<running, sock, closeCode, client, closed, handshakeTimer, helloWait,
                 instanceId, overflowed, clients, seq, presenceVersion, healthVersion,
                 entries, systemEvents, portLog, uuids, eventLog, now, gatewayToken,
                 firstFrame, badFrames, lastBroadcast, clientSide>>

(* ------------------------- socket close / error ----------------------- *)
\* Variant of SocketClose: the disconnect is broadcast without a new presenceVersion.
SocketCloseSameVersion(c, buf) ==
  /\ sock[c] \in {"open", "closing"}
  /\ LET gone == [sock EXCEPT ![c] = "closed"]
         frame == EventFrame("presence", PresencePayload, seq + 1,
                             [presence |-> presenceVersion, health |-> healthVersion])
     IN  IF client[c]
           THEN /\ entries' = listSystemPresence(
                       upsertPresence(entries, PresenceKey(instanceId[c], c), "disconnect",
                                      now), now)
                /\ presenceVersion' = presenceVersion
                /\ seq' = seq + 1
                /\ eventLog' = LogEvent(eventLog, frame)
                /\ overflowed' = Overflowed(buf)
                /\ lastBroadcast' = [event |-> "presence", slow |-> SlowClients(buf)]
                /\ wire' = BroadcastWire(wire, gone, buf, frame, TRUE)
                /\ sock' = BroadcastSock(gone, buf, TRUE)
                /\ closeCode' = BroadcastCode(closeCode, gone, buf, TRUE)
           ELSE /\ sock' = gone
                /\ UNCHANGED <<entries, presenceVersion, seq, eventLog, wire, closeCode,
                               overflowed, lastBroadcast>>
  /\ closed' = [closed EXCEPT ![c] = TRUE]
  /\ handshakeTimer' = [handshakeTimer EXCEPT ![c] = IF closed[c] THEN @ ELSE FALSE]
  /\ clients' = IF closed[c] THEN clients ELSE clients \ {c}
  /\ UNCHANGED <<running, client, helloWait, instanceId, reqs, healthVersion, dedupe,
                 systemEvents, portLog, uuids, now, gatewayToken,
                 firstFrame, badFrames, clientSide>>

\* socket.once("close"): the disconnect is recorded and broadcast while the connection
\* is still in the broadcast set, then close() removes it.
SocketClose(c, buf) ==
  /\ sock[c] \in {"open", "closing"}
  /\ LET gone == [sock EXCEPT ![c] = "closed"]
         frame == EventFrame("presence", PresencePayload, seq + 1,
                             [presence |-> presenceVersion + 1, health |-> healthVersion])
     IN  IF client[c]
           THEN /\ entries' = listSystemPresence(
                       upsertPresence(entries, PresenceKey(instanceId[c], c), "disconnect",
                                      now), now)
                /\ presenceVersion' = presenceVersion + 1
                /\ seq' = seq + 1
                /\ eventLog' = LogEvent(eventLog, frame)
                /\ overflowed' = Overflowed(buf)
                /\ lastBroadcast' = [event |-> "presence", slow |-> SlowClients(buf)]
                /\ wire' = BroadcastWire(wire, gone, buf, frame, TRUE)
                /\ sock' = BroadcastSock(gone, buf, TRUE)
                /\ closeCode' = BroadcastCode(closeCode, gone, buf, TRUE)
           ELSE /\ sock' = gone
                /\ UNCHANGED <<entries, presenceVersion, seq, eventLog, wire, closeCode,
                               overflowed, lastBroadcast>>
  /\ closed' = [closed EXCEPT ![c] = TRUE]
  /\ handshakeTimer' = [handshakeTimer EXCEPT ![c] = IF closed[c] THEN @ ELSE FALSE]
  /\ clients' = IF closed[c] THEN clients ELSE clients \ {c}
  /\ UNCHANGED <<running, client, helloWait, instanceId, reqs, healthVersion, dedupe,
                 systemEvents, portLog, uuids, now, gatewayToken,
                 firstFrame, badFrames, clientSide>>

\* socket.once("error"): close() alone.
SocketError(c) ==
  /\ sock[c] = "open"
  /\ ~closed[c]
  /\ closed' = [closed EXCEPT ![c] = TRUE]
  /\ handshakeTimer' = [handshakeTimer EXCEPT ![c] = FALSE]
  /\ clients' = clients \ {c}
  /\ sock' = CloseSock(sock, c)
  /\ closeCode' = CloseCode(closeCode, sock, c, 1000)
  /\ UNCHANGED <<running, client, helloWait, instanceId, overflowed, wire, reqs, seq,
                 presenceVersion, healthVersion, dedupe, entries, systemEvents, portLog,
                 uuids, eventLog, now, gatewayToken,
                 firstFrame, badFrames, lastBroadcast, clientSide>>

(* --------------------------- server-wide ------------------------------ *)
\* One broadcast(event, payload, opts) with no stateVersion.
Emit(event, payload, buf, dropIfSlow) ==
  /\ seq' = seq + 1
  /\ eventLog' = LogEvent(eventLog, EventFrame(event, payload, seq + 1, NoVersion))
  /\ overflowed' = Overflowed(buf)
  /\ lastBroadcast' = [event |-> event, slow |-> SlowClients(buf)]
  /\ wire' = BroadcastWire(wire, sock, buf, EventFrame(event, payload, seq + 1, NoVersion),
                           dropIfSlow)

\* Variant of Tick: the tick is broadcast without dropIfSlow.
TickClosing(buf) ==
  /\ running
  /\ Emit("tick", TickPayload, buf, FALSE)
  /\ sock' = BroadcastSock(sock, buf, FALSE)
  /\ closeCode' = BroadcastCode(closeCode, sock, buf, FALSE)
  /\ UNCHANGED <<running, client, closed, handshakeTimer, helloWait, instanceId, clients,
                 reqs, presenceVersion, healthVersion, dedupe, entries, systemEvents,
                 portLog, uuids, now, gatewayToken, firstFrame, badFrames, clientSide>>

\* tickInterval
Tick(buf) ==
  /\ running
  /\ Emit("tick", TickPayload, buf, TRUE)
  /\ sock' = BroadcastSock(sock, buf, TRUE)
  /\ closeCode' = BroadcastCode(closeCode, sock, buf, TRUE)
  /\ UNCHANGED <<running, client, closed, handshakeTimer, helloWait, instanceId, clients,
                 reqs, presenceVersion, healthVersion, dedupe, entries, systemEvents,
                 portLog, uuids, now, gatewayToken,
                 firstFrame, badFrames, clientSide>>

\* onAgentEvent subscriber
AgentEvent(buf) ==
  /\ running
  /\ Emit("agent", BusPayload, buf, FALSE)
  /\ sock' = BroadcastSock(sock, buf, FALSE)
  /\ closeCode' = BroadcastCode(closeCode, sock, buf, FALSE)
  /\ UNCHANGED <<running, client, closed, handshakeTimer, helloWait, instanceId, clients,
                 reqs, presenceVersion, healthVersion, dedupe, entries, systemEvents,
                 portLog, uuids, now, gatewayToken,
                 firstFrame, badFrames, clientSide>>

\* GatewayServer.close(): shutdown broadcast, then every socket of the set is closed.
Shutdown(buf) ==
  /\ running
  /\ running' = FALSE
  /\ Emit("shutdown", ShutdownPayload, buf, FALSE)
  /\ LET s1 == BroadcastSock(sock, buf, FALSE)
         c1 == BroadcastCode(closeCode, sock, buf, FALSE)
     IN  /\ sock' = [c \in Conns |-> IF c \in clients /\ s1[c] = "open" THEN "closing"
                                                                         ELSE s1[c]]
         /\ closeCode' = [c \in Conns |-> IF c \in clients /\ s1[c] = "open" THEN 1012
                                                                              ELSE c1[c]]
  /\ clients' = {}
  /\ UNCHANGED <<client, closed, handshakeTimer, helloWait, instanceId, reqs,
                 presenceVersion, healthVersion, dedupe, entries, systemEvents,
                 portLog, uuids, now, gatewayToken,
                 firstFrame, badFrames, clientSide>>

\* [...dedupe.entries()].sort((a, b) => a[1].ts - b[1].ts)
SortedByTs(d) == KeysByTs(d, DOMAIN d)

RECURSIVE CapLoop(_, _, _)
CapLoop(d, sorted, i) ==
  IF i < Cardinality(DOMAIN d) - DEDUPE_MAX
    THEN CapLoop([k \in DOMAIN d \ {sorted[i + 1]} |-> d[k]], sorted, i + 1)
    ELSE d

\* for (const [k, v] of dedupe) if (now - v.ts > DEDUPE_TTL_MS) dedupe.delete(k)
Unexpired(d, t) == [k \in {j \in DOMAIN d : ~(t - d[j].ts > DEDUPE_TTL_MS)} |-> d[k]]

\* if (dedupe.size > DEDUPE_MAX) { sort; for ... delete }
CapTo(fresh) ==
  IF Cardinality(DOMAIN fresh) > DEDUPE_MAX THEN CapLoop(fresh, SortedByTs(fresh), 0)
                                            ELSE fresh

dedupeCleanup(d, t) == CapTo(Unexpired(d, t))

\* dedupeCleanup interval
Sweep ==
  /\ running
  /\ dedupe' = dedupeCleanup(dedupe, now)
  /\ dedupe' # dedupe
  /\ UNCHANGED <<running, sock, closeCode, client, closed, handshakeTimer, helloWait,
                 instanceId, overflowed, clients, wire, reqs, seq, presenceVersion,
                 healthVersion, entries, systemEvents, portLog, uuids, eventLog, now,
                 gatewayToken,
                 firstFrame, badFrames, lastBroadcast, clientSide>>

(* ---------------------------- environment ----------------------------- *)
AdvanceClock(step) ==
  /\ now' = now + step
  /\ UNCHANGED <<running, sock, closeCode, client, closed, handshakeTimer, helloWait,
                 instanceId, overflowed, clients, wire, reqs, seq, presenceVersion,
                 healthVersion, dedupe, entries, systemEvents, portLog, uuids, eventLog,
                 gatewayToken,
                 firstFrame, badFrames, lastBroadcast, clientSide>>

(* --------------------------- specifications --------------------------- *)
\* The next-state relations below bound the inputs: L.conns connections are accepted,
\* L.reqs request frames are received, seq stops at L.seq and the clock at L.clock steps;
\* L.bufs are the bufferedAmount readings a broadcast can make, L.texts, L.idems and
\* L.sessions the params offered to system-event, send and agent.
Accepting(L) ==
  \/ \E c \in 1..L.conns : Connect(c)
  \/ \E c \in Conns, inst \in L.insts :
        RecvHello(c, TRUE, PROTOCOL_VERSION, PROTOCOL_VERSION, gatewayToken, inst)
  \/ \E c \in Conns, ok \in BOOLEAN : HelloHealthDone(c, ok)

Closing(L) ==
  \E c \in Conns, buf \in L.bufs : (client[c] => seq < L.seq) /\ SocketClose(c, buf)

ReadRequests(L) ==
  \/ \E c \in Conns, method \in {"health", "status"} :
        Len(reqs) < L.reqs /\ ReqPort(c, method)
  \/ \E i \in DOMAIN reqs, ok \in BOOLEAN : PortReturn(i, ok)
  \/ \E c \in Conns : Len(reqs) < L.reqs /\ ReqSystemPresence(c)
  \/ \E c \in Conns, method \in {"set-heartbeats", "bogus"} :
        Len(reqs) < L.reqs /\ ReqPlain(c, method)

SystemEvents(L) ==
  \E c \in Conns, text \in L.texts, buf \in L.bufs :
     Len(reqs) < L.reqs /\ (Trim(text) # "" => seq < L.seq) /\ ReqSystemEvent(c, text, buf)

SendRequests(L) ==
  \/ \E c \in Conns, idem \in L.idems : Len(reqs) < L.reqs /\ ReqSend(c, idem)
  \/ \E i \in DOMAIN reqs, result \in DeliveryResults : SendReturn(i, TRUE, result, "")
  \/ \E i \in DOMAIN reqs, err \in PortErrors :
        SendReturn(i, FALSE, [messageId |-> "", toJid |-> ""], err)

AgentRequests(L) ==
  \/ \E c \in Conns, idem \in L.idems, sessionId \in L.sessions :
        /\ Len(reqs) < L.reqs
        /\ (idem # "" /\ DedupeKey("agent", idem) \notin DOMAIN dedupe) => seq < L.seq
        /\ ReqAgent(c, idem, sessionId)
  \/ \E i \in DOMAIN reqs : AgentReturn(i, TRUE, "")
  \/ \E i \in DOMAIN reqs, err \in PortErrors : AgentReturn(i, FALSE, err)

Producers(L) ==
  \/ \E buf \in L.bufs : seq < L.seq /\ Tick(buf)
  \/ \E buf \in L.bufs : seq < L.seq /\ AgentEvent(buf)
  \/ \E buf \in L.bufs : seq < L.seq /\ Shutdown(buf)

Timed(L) ==
  \/ Sweep
  \/ now < L.clock * ClockStep /\ AdvanceClock(ClockStep)

\* The passing of time.
Ticking(L) == now < L.clock * ClockStep /\ AdvanceClock(ClockStep)

\* Reads of the presence list.
PresenceReads(L) == \E c \in Conns : Len(reqs) < L.reqs /\ ReqSystemPresence(c)

\* The Agent port gives up on the caller's timeout.
AgentTimeouts(L) == \E i \in DOMAIN reqs : AgentReturn(i, FALSE, TimeoutError)

\* Hellos of every kind, the handshake timer, socket errors and the gateway token.
Handshakes(L) ==
  \/ \E token \in ConfiguredTokens : (\A c \in Conns : sock[c] = "none") /\ SetToken(token)
  \/ \E c \in Conns, range \in HelloRanges, token \in Tokens, inst \in L.insts :
        RecvHello(c, TRUE, range[1], range[2], token, inst)
  \/ \E c \in Conns, inst \in L.insts : RecvHello(c, FALSE, 0, 0, "", inst)
  \/ \E c \in Conns : HandshakeTimeout(c)
  \/ \E c \in Conns : SocketError(c)

\* Frames that are no req: L.frames of them per connection.
BadFrames(L) ==
  \/ \E c \in Conns : (client[c] => Len(badFrames[c]) < L.frames) /\ RecvUnparseable(c)
  \/ \E c \in Conns, frame \in L.others :
        Len(badFrames[c]) < L.frames /\ RecvInvalidFrame(c, frame)

\* Spec: requests of every method, with the events their handlers and the closes emit.
Limits ==
  [conns |-> MaxConns, reqs |-> MaxReqs, seq |-> MaxSeq, clock |-> 0, insts |-> {""},
   bufs |-> BufferReads,
   texts |-> Texts, idems |-> IdemKeys, sessions |-> SessionIds]

Next ==
  \/ Accepting(Limits)
  \/ Closing(Limits)
  \/ ReadRequests(Limits)
  \/ SystemEvents(Limits)
  \/ SendRequests(Limits)
  \/ AgentRequests(Limits)

Spec == Init /\ [][Next]_vars

\* SpecDedupe: the mutating methods, the dedupe sweep and the passing of time.
DedupeLimits ==
  [conns |-> MaxConns, reqs |-> DedupeReqs, seq |-> DedupeSeq, clock |-> MaxClock,
   insts |-> {""}, bufs |-> {[c \in Conns |-> MAX_BUFFERED_BYTES]},
   texts |-> Texts, idems |-> IdemKeys, sessions |-> SessionIds]

NextDedupe ==
  \/ Accepting(DedupeLimits)
  \/ Closing(DedupeLimits)
  \/ SendRequests(DedupeLimits)
  \/ AgentRequests(DedupeLimits)
  \/ Timed(DedupeLimits)

SpecDedupe == Init /\ [][NextDedupe]_vars

\* SpecEvents: every source of event frames.
EventLimits ==
  [conns |-> MaxConns, reqs |-> EventReqs, seq |-> EventSeq, clock |-> 0, insts |-> {""},
   bufs |-> BufferReads, texts |-> {"note"}, idems |-> {"K"}, sessions |-> {""}]

NextEvents ==
  \/ Accepting(EventLimits)
  \/ Closing(EventLimits)
  \/ SystemEvents(EventLimits)
  \/ AgentRequests(EventLimits)
  \/ Producers(EventLimits)

SpecEvents == Init /\ [][NextEvents]_vars

\* SpecHandshake: the handshake in all its outcomes, with the presence broadcasts that
\* tell who is in the broadcast set.
HandshakeLimits ==
  [conns |-> MaxConns, reqs |-> FrameReqs, seq |-> FrameSeq, clock |-> 0, insts |-> {""},
   bufs |-> {[c \in Conns |-> MAX_BUFFERED_BYTES]},
   texts |-> {"note"}, idems |-> IdemKeys, sessions |-> {""},
   frames |-> MaxFrames, others |-> {HelloFrame(TRUE, 1, 1, "secret")}]

NextHandshake ==
  \/ Accepting(HandshakeLimits)
  \/ Handshakes(HandshakeLimits)
  \/ BadFrames(HandshakeLimits)
  \/ Closing(HandshakeLimits)
  \/ SystemEvents(HandshakeLimits)

SpecHandshake == Init /\ [][NextHandshake]_vars

\* SpecFrames: the frames and failures a connection with a client can meet.
FrameLimits ==
  [conns |-> MaxConns, reqs |-> FrameReqs, seq |-> FrameSeq, clock |-> 0, insts |-> {""},
   bufs |-> {[c \in Conns |-> MAX_BUFFERED_BYTES]},
   texts |-> Texts, idems |-> IdemKeys, sessions |-> {""},
   frames |-> MaxFrames, others |-> InvalidFrames]

NextFrames ==
  \/ Accepting(FrameLimits)
  \/ BadFrames(FrameLimits)
  \/ Closing(FrameLimits)
  \/ ReadRequests(FrameLimits)
  \/ SystemEvents(FrameLimits)
  \/ SendRequests(FrameLimits)

SpecFrames == Init /\ [][NextFrames]_vars

\* SpecAgent: agent requests with every outcome of the Agent port, its timeout included.
AgentLimits ==
  [conns |-> MaxConns, reqs |-> MaxReqs, seq |-> EventSeq, clock |-> 0, insts |-> {""},
   bufs |-> {[c \in Conns |-> MAX_BUFFERED_BYTES]},
   texts |-> Texts, idems |-> IdemKeys, sessions |-> SessionIds]

NextAgent ==
  \/ Accepting(AgentLimits)
  \/ Closing(AgentLimits)
  \/ AgentRequests(AgentLimits)
  \/ AgentTimeouts(AgentLimits)

SpecAgent == Init /\ [][NextAgent]_vars

\* SpecVersions: what moves presenceVersion and healthVersion: connects, disconnects,
\* system-event requests, with reads of the presence list in between.
VersionLimits ==
  [conns |-> MaxConns, reqs |-> MaxReqs, seq |-> EventSeq, clock |-> 0, insts |-> {""},
   bufs |-> {[c \in Conns |-> MAX_BUFFERED_BYTES]},
   texts |-> Texts, idems |-> IdemKeys, sessions |-> {""}]

NextVersions ==
  \/ Accepting(VersionLimits)
  \/ Closing(VersionLimits)
  \/ SystemEvents(VersionLimits)
  \/ PresenceReads(VersionLimits)

SpecVersions == Init /\ [][NextVersions]_vars

\* SpecDisconnect: connections with and without instanceId come and go as time passes.
DisconnectLimits ==
  [conns |-> MaxConns, reqs |-> MaxReqs, seq |-> EventSeq, clock |-> MaxClock,
   insts |-> InstanceIds, bufs |-> {[c \in Conns |-> MAX_BUFFERED_BYTES]},
   texts |-> {"note"}, idems |-> IdemKeys, sessions |-> {""}]

NextDisconnect ==
  \/ Accepting(DisconnectLimits)
  \/ Closing(DisconnectLimits)
  \/ SystemEvents(DisconnectLimits)
  \/ PresenceReads(DisconnectLimits)
  \/ Ticking(DisconnectLimits)

SpecDisconnect == Init /\ [][NextDisconnect]_vars

\* SpecRegistry: the presence registry under its exported functions. It starts from
\* registries that upsertPresence builds before the first listSystemPresence: the
\* self-entry of module load (time 0) and n entries upserted one a millisecond, n around
\* MAX_ENTRIES, read at once or when the TTL has run out for the oldest of them.
RegistrySizes == (MAX_ENTRIES - 1)..(MAX_ENTRIES + MaxExtra)
RegistryTimes(n) == {n} \cup {TTL_MS + s : s \in 0..MaxStale}
RegistryKeys == {<<"conn", "", 0>>, <<"conn", "", 1>>}

InitRegistry ==
  /\ \E n \in RegistrySizes :
        /\ entries = [k \in {SelfKey} \cup {<<"conn", "", i>> : i \in 1..n} |->
                        IF k = SelfKey THEN [reason |-> "self", ts |-> 0]
                                       ELSE [reason |-> "connect", ts |-> k[3]]]
        /\ now \in RegistryTimes(n)
  /\ running = TRUE
  /\ sock = [c \in Conns |-> "none"]
  /\ closeCode = [c \in Conns |-> 0]
  /\ client = [c \in Conns |-> FALSE]
  /\ closed = [c \in Conns |-> FALSE]
  /\ handshakeTimer = [c \in Conns |-> FALSE]
  /\ helloWait = [c \in Conns |-> 0]
  /\ instanceId = [c \in Conns |-> ""]
  /\ overflowed = {}
  /\ clients = {}
  /\ wire = [c \in Conns |-> <<>>]
  /\ reqs = <<>>
  /\ seq = 0
  /\ presenceVersion = 1
  /\ healthVersion = 1
  /\ dedupe = <<>>
  /\ systemEvents = 0
  /\ portLog = <<>>
  /\ uuids = 0
  /\ eventLog = <<>>
  /\ gatewayToken = ""
  /\ firstFrame = [c \in Conns |-> NoFrame]
  /\ badFrames = [c \in Conns |-> <<>>]
  /\ lastBroadcast = [event |-> "", slow |-> {}]
  /\ clientSide = NewClient

\* A call of listSystemPresence().
ListPresence ==
  /\ entries' = listSystemPresence(entries, now)
  /\ UNCHANGED <<running, sock, closeCode, client, closed, handshakeTimer, helloWait,
                 instanceId, overflowed, clients, wire, reqs, seq, presenceVersion,
                 healthVersion, dedupe, systemEvents, portLog, uuids, eventLog, now,
                 gatewayToken, firstFrame, badFrames, lastBroadcast, clientSide>>

\* A call of upsertPresence(key, {reason: "connect"}).
UpsertEntry(key) ==
  /\ entries' = upsertPresence(entries, key, "connect", now)
  /\ UNCHANGED <<running, sock, closeCode, client, closed, handshakeTimer, helloWait,
                 instanceId, overflowed, clients, wire, reqs, seq, presenceVersion,
                 healthVersion, dedupe, systemEvents, portLog, uuids, eventLog, now,
                 gatewayToken, firstFrame, badFrames, lastBroadcast, clientSide>>

NextRegistry ==
  \/ ListPresence
  \/ \E key \in RegistryKeys : UpsertEntry(key)
  \/ now + TTL_MS <= 2 * TTL_MS + MaxStale /\ AdvanceClock(TTL_MS)

SpecRegistry == InitRegistry /\ [][NextRegistry]_vars

\* SpecSweep: the dedupe cache under dedupe.set and the sweep. It starts from caches
\* that n deliveries, one a millisecond, have filled since the last sweep, n around
\* DEDUPE_MAX, swept at once or when the TTL has run out for the oldest of them.
CacheSizes == (DEDUPE_MAX - 1)..(DEDUPE_MAX + MaxExtra)
CacheTimes(n) == {n} \cup {DEDUPE_TTL_MS + s : s \in 0..MaxStale}
CacheKeys == {"0", "1"}
Delivered(idem, t) ==
  [ts |-> t, ok |-> TRUE,
   payload |-> SendPayload(idem, CHOOSE result \in DeliveryResults : TRUE),
   error |-> NoError]

InitSweep ==
  /\ \E n \in CacheSizes :
        /\ dedupe = [k \in {DedupeKey("send", ToString(i)) : i \in 1..n} |->
                       Delivered(k[2], CHOOSE i \in 1..n : ToString(i) = k[2])]
        /\ now \in CacheTimes(n)
  /\ running = TRUE
  /\ sock = [c \in Conns |-> "none"]
  /\ closeCode = [c \in Conns |-> 0]
  /\ client = [c \in Conns |-> FALSE]
  /\ closed = [c \in Conns |-> FALSE]
  /\ handshakeTimer = [c \in Conns |-> FALSE]
  /\ helloWait = [c \in Conns |-> 0]
  /\ instanceId = [c \in Conns |-> ""]
  /\ overflowed = {}
  /\ clients = {}
  /\ wire = [c \in Conns |-> <<>>]
  /\ reqs = <<>>
  /\ seq = 0
  /\ presenceVersion = 1
  /\ healthVersion = 1
  /\ entries = initSelfPresence(<<>>, 0)
  /\ systemEvents = 0
  /\ portLog = <<>>
  /\ uuids = 0
  /\ eventLog = <<>>
  /\ gatewayToken = ""
  /\ firstFrame = [c \in Conns |-> NoFrame]
  /\ badFrames = [c \in Conns |-> <<>>]
  /\ lastBroadcast = [event |-> "", slow |-> {}]
  /\ clientSide = NewClient

\* dedupe.set(`send:${idem}`, {ts: Date.now(), ok: true, payload})
CacheDelivery(idem) ==
  /\ dedupe' = DedupeSet(dedupe, DedupeKey("send", idem), Delivered(idem, now))
  /\ UNCHANGED <<running, sock, closeCode, client, closed, handshakeTimer, helloWait,
                 instanceId, overflowed, clients, wire, reqs, seq, presenceVersion,
                 healthVersion, entries, systemEvents, portLog, uuids, eventLog, now,
                 gatewayToken, firstFrame, badFrames, lastBroadcast, clientSide>>

NextSweep ==
  \/ Sweep
  \/ \E idem \in CacheKeys : CacheDelivery(idem)
  \/ now + DEDUPE_TTL_MS <= 2 * DEDUPE_TTL_MS + MaxStale /\ AdvanceClock(DEDUPE_TTL_MS)

SpecSweep == InitSweep /\ [][NextSweep]_vars

\* SpecLive: handshakes and disconnects, where every getHealthSnapshot() call a hello
\* handler awaits settles in the end, one way or the other.
LiveLimits ==
  [conns |-> MaxConns, reqs |-> 0, seq |-> EventSeq, clock |-> 0, insts |-> InstanceIds,
   bufs |-> {[c \in Conns |-> MAX_BUFFERED_BYTES]},
   texts |-> Texts, idems |-> IdemKeys, sessions |-> {""}]

NextLive ==
  \/ Accepting(LiveLimits)
  \/ Closing(LiveLimits)

HealthSettles == \E c \in Conns, ok \in BOOLEAN : HelloHealthDone(c, ok)

SpecLive == Init /\ [][NextLive]_vars /\ WF_vars(HealthSettles)

\* The client's specifications bound its inputs: K.sockets WebSockets are created,
\* K.requests requests are made, the gateway's seq stops at K.events and K.callbacks
\* callbacks are recorded.
Starts(K) ==
  /\ clientSide.sockets = <<>> \/ clientSide.closed
  /\ Start

Sockets(K) ==
  \/ \E s \in 1..K.sockets : SocketOpens(s)
  \/ \E s \in 1..K.sockets : SocketCloses(s)
  \/ \E t \in 1..K.sockets :
        (clientSide.closed \/ Len(clientSide.sockets) < K.sockets) /\ TimerFires(t)

\* The gateway answers a hello it was sent, once.
Greeting(K) ==
  \E s \in 1..K.sockets,
     frame \in {HelloOkFrame(NoVersion), HelloErrorFrame("unauthorized", 0)} :
     /\ s \in DOMAIN clientSide.sockets
     /\ clientSide.sockets[s].frames # <<>>
     /\ ReceiveHelloAnswer(s, frame)

Stopping(K) == ~clientSide.closed /\ Stop

Requests(K) ==
  \E expectFinal \in BOOLEAN : clientSide.requests < K.requests /\ Request(expectFinal)

\* res frames: final ones and "accepted" ones, for ids the client has used or not.
Answers(K) ==
  \E s \in 1..K.sockets, id \in 1..K.requests, ok \in BOOLEAN, status \in {"", "accepted"} :
     Receive(s, ResFrame(ReqId(id), ok, [OkPayload EXCEPT !.status = status],
                         IF ok THEN NoError ELSE errorShape("UNAVAILABLE", "")))

GatewayEvents(K) ==
  \/ \E s \in 1..K.sockets : clientSide.serverSeq < K.events /\ ReceiveEvent(s)
  \/ clientSide.serverSeq < K.events /\ MissEvent
  \/ \E s \in 1..K.sockets :
        /\ Len(clientSide.callbacks) < K.callbacks
        /\ Receive(s, EventFrame("tick", TickPayload, NullSeq, NoVersion))

Calling(K) ==
  \/ \E expectFinal \in BOOLEAN : CallGateway(expectFinal)
  \/ CallTimeout

\* SpecBackoff: a client that is started, connects, is greeted or not, loses its socket
\* and reconnects, MaxAttempts times over, until it is stopped.
BackoffLimits == [sockets |-> MaxAttempts, requests |-> 0, events |-> 0, callbacks |-> 0]

NextBackoff ==
  \/ Starts(BackoffLimits)
  \/ Sockets(BackoffLimits)
  \/ Greeting(BackoffLimits)
  \/ Stopping(BackoffLimits)

SpecBackoff == Init /\ [][NextBackoff]_vars

\* SpecClient: a client with requests in flight, over MaxSockets connections.
ClientLimits ==
  [sockets |-> MaxSockets, requests |-> MaxCalls, events |-> 0, callbacks |-> 0]

NextClient ==
  \/ Starts(ClientLimits)
  \/ Sockets(ClientLimits)
  \/ Greeting(ClientLimits)
  \/ Stopping(ClientLimits)
  \/ Requests(ClientLimits)
  \/ Answers(ClientLimits)

SpecClient == Init /\ [][NextClient]_vars

\* SpecGaps: a client with events coming in, or passing it by, over MaxSockets
\* connections.
GapLimits ==
  [sockets |-> MaxSockets, requests |-> 0, events |-> MaxEvents,
   callbacks |-> MaxEvents + 2 * MaxSockets]

NextGaps ==
  \/ Starts(GapLimits)
  \/ Sockets(GapLimits)
  \/ Greeting(GapLimits)
  \/ Stopping(GapLimits)
  \/ GatewayEvents(GapLimits)

SpecGaps == Init /\ [][NextGaps]_vars

\* SpecCall: one callGateway call and what its client goes on to do.
CallLimits == [sockets |-> MaxSockets + 1, requests |-> MaxCalls, events |-> 0, callbacks |-> 0]

NextCall ==
  \/ Calling(CallLimits)
  \/ Sockets(CallLimits)
  \/ Greeting(CallLimits)
  \/ Answers(CallLimits)

SpecCall == Init /\ [][NextCall]_vars

(* ------------------------------- claims ------------------------------- *)
\* Positions in connection c's outgoing frames of the res frames with the given id.
ResIndexes(c, id) == {k \in DOMAIN wire[c] : wire[c][k].type = "res" /\ wire[c][k].id = id}

\* The res frames written for request i on its connection.
ResOf(i) == {wire[reqs[i].conn][k] : k \in ResIndexes(reqs[i].conn, ReqId(i))}

HelloOkSent(c) == \E k \in DOMAIN wire[c] : wire[c][k].type = "hello-ok"

IsEvent(f) == f.type = "event"
Events(c) == SelectSeq(wire[c], IsEvent)

IsAck(f) == f.type = "event" /\ f.event = "agent" /\ f.payload.status = "accepted"

Mutating == {"send", "agent"}

\* Requests i and j name the same method and the same, valid, idempotency key.
SameKey(i, j) ==
  /\ reqs[i].method \in Mutating
  /\ reqs[j].method = reqs[i].method
  /\ reqs[i].idem # ""
  /\ reqs[j].idem = reqs[i].idem

Invocations(method, idem) ==
  {k \in DOMAIN portLog : portLog[k].method = method /\ portLog[k].idem = idem}

\* This step receives a request frame; Received is the handler it starts.
Receives == Len(reqs') = Len(reqs) + 1
Received == reqs'[Len(reqs')]

\* This step answers the received request with the cached entry and leaves the ports alone.
ReplaysCached(key) ==
  /\ wire'[Received.conn] =
       Append(wire[Received.conn],
              ResFrame(ReqId(Received.id), dedupe[key].ok, dedupe[key].payload,
                       dedupe[key].error))
  /\ portLog' = portLog
  /\ Received.st = "done"

\* This step is the settling of the port that request i awaits.
Settles(i) == reqs[i].st = "await" /\ reqs'[i].st = "done"

\* C1 (as the spec states it): every request accepted on a connection that has
\* completed the handshake and is still open has, once its handler has run to its end,
\* a res frame with its id on that connection; a port that throws included.
C1_EveryRequestAnswered ==
  \A i \in DOMAIN reqs :
    (reqs[i].st = "done" /\ sock[reqs[i].conn] = "open" /\ HelloOkSent(reqs[i].conn))
      => ResOf(i) # {}

\* C2: a request id is answered by at most one res frame, on the connection that sent
\* it and on no other, whatever the method; the agent acknowledgement is an event frame.
C2_AtMostOneRes ==
  /\ \A c \in Conns, i \in DOMAIN reqs :
        Cardinality(ResIndexes(c, ReqId(i))) <= (IF reqs[i].conn = c THEN 1 ELSE 0)
  /\ \A c \in Conns : \A k \in DOMAIN wire[c] :
        wire[c][k].payload.status = "accepted" => IsAck(wire[c][k])

\* C2 witness: an agent request acknowledged by an event and answered by one res,
\* followed by a same-key agent request answered once from the cache.
C2_Witness ==
  \E i, j \in DOMAIN reqs :
    /\ i < j
    /\ SameKey(i, j)
    /\ reqs[i].method = "agent"
    /\ \E k \in DOMAIN wire[reqs[i].conn] :
          IsAck(wire[reqs[i].conn][k]) /\ wire[reqs[i].conn][k].payload.runId = reqs[i].runId
    /\ Cardinality(ResIndexes(reqs[i].conn, ReqId(i))) = 1
    /\ Cardinality(ResIndexes(reqs[j].conn, ReqId(j))) = 1

\* C3 (as the spec states it): no port is invoked twice for the same method and
\* idempotency key within DEDUPE_TTL_MS.
C3_PortInvokedOncePerKey ==
  \A a, b \in DOMAIN portLog :
    ~ /\ a < b
      /\ portLog[a].method = portLog[b].method
      /\ portLog[a].idem = portLog[b].idem
      /\ portLog[b].at - portLog[a].at <= DEDUPE_TTL_MS

\* C4 (as the spec states it): two requests of the same method and idempotency key
\* received within DEDUPE_TTL_MS of each other are answered with equal payloads and
\* equal errors.
C4_SameKeySameAnswer ==
  \A i, j \in DOMAIN reqs :
    (i < j /\ SameKey(i, j) /\ reqs[j].at - reqs[i].at <= DEDUPE_TTL_MS)
      => \A f \in ResOf(i), g \in ResOf(j) : f.payload = g.payload /\ f.error = g.error

\* C5: when the port settles for a send or agent request, the triple it is answered
\* with is the triple stored under its key; and every later request of that method and
\* key that finds the entry in the cache is answered with exactly the stored
\* ok/payload/error, without a port invocation.
C5_ReplayStoredOutcome ==
  [][/\ \A i \in DOMAIN reqs :
          (Settles(i) /\ reqs[i].method \in Mutating /\ sock[reqs[i].conn] = "open")
            => LET key == DedupeKey(reqs[i].method, reqs[i].idem)
               IN  /\ key \in DOMAIN dedupe'
                   /\ wire'[reqs[i].conn] =
                        Append(wire[reqs[i].conn],
                               ResFrame(ReqId(i), dedupe'[key].ok, dedupe'[key].payload,
                                        dedupe'[key].error))
     /\ (Receives /\ Received.method \in Mutating /\ Received.idem # ""
           /\ DedupeKey(Received.method, Received.idem) \in DOMAIN dedupe)
          => ReplaysCached(DedupeKey(Received.method, Received.idem))
    ]_vars

\* C5 witness: a port failure was stored, and a later request of the same method and
\* key got the same failure back while the port was invoked once.
C5_Witness ==
  \E i, j \in DOMAIN reqs :
    /\ i < j
    /\ SameKey(i, j)
    /\ reqs[i].st = "done" /\ reqs[j].st = "done"
    /\ Cardinality(Invocations(reqs[i].method, reqs[i].idem)) = 1
    /\ \E f \in ResOf(i), g \in ResOf(j) :
          /\ ~f.ok /\ ~g.ok
          /\ f.error.code = "UNAVAILABLE"
          /\ g.payload = f.payload /\ g.error = f.error

\* C6: when the port settles for a send or agent request whose connection is no longer
\* open, the outcome is stored under <method>:<key> all the same (and nothing is
\* sent); a later request with that key on another connection is answered from the
\* stored entry without a port invocation.
C6_OutcomeCachedAfterClose ==
  [][/\ \A i \in DOMAIN reqs :
          (Settles(i) /\ reqs[i].method \in Mutating /\ sock[reqs[i].conn] # "open")
            => LET key == DedupeKey(reqs[i].method, reqs[i].idem)
               IN  /\ key \in DOMAIN dedupe'
                   /\ dedupe'[key].ts = now
                   /\ dedupe'[key].ok = (dedupe'[key].error = NoError)
                   /\ reqs[i].method = "agent" => dedupe'[key].payload.runId = reqs[i].runId
                   /\ wire' = wire
     /\ (Receives /\ Received.method \in Mutating /\ Received.idem # ""
           /\ DedupeKey(Received.method, Received.idem) \in DOMAIN dedupe
           /\ \E i \in DOMAIN reqs :
                 /\ reqs[i].method = Received.method /\ reqs[i].idem = Received.idem
                 /\ reqs[i].conn # Received.conn
                 /\ sock[reqs[i].conn] # "open")
          => ReplaysCached(DedupeKey(Received.method, Received.idem))
    ]_vars

\* C6 witness: request i was never answered because its connection closed while the
\* port ran; request j, same key, on another connection got the stored outcome, and the
\* port was invoked once.
C6_Witness ==
  \E i, j \in DOMAIN reqs :
    /\ i < j
    /\ SameKey(i, j)
    /\ reqs[i].conn # reqs[j].conn
    /\ reqs[i].st = "done"
    /\ sock[reqs[i].conn] # "open"
    /\ ResOf(i) = {}
    /\ Cardinality(Invocations(reqs[i].method, reqs[i].idem)) = 1
    /\ DedupeKey(reqs[i].method, reqs[i].idem) \in DOMAIN dedupe
    /\ \E g \in ResOf(j) :
          LET e == dedupe[DedupeKey(reqs[i].method, reqs[i].idem)]
          IN  g.ok = e.ok /\ g.payload = e.payload /\ g.error = e.error

\* C7: the k-th event frame built carries the seq of the one before it plus 1 (the
\* first carries 1), whatever built it; the event frames a connection is sent carry
\* seqs that were so assigned, strictly increasing, so none is repeated.
C7_SeqConsecutive ==
  /\ \A k \in DOMAIN eventLog : eventLog[k] = (IF k = 1 THEN 0 ELSE eventLog[k - 1]) + 1
  /\ seq = Len(eventLog)
  /\ \A c \in Conns :
        /\ \A k \in DOMAIN Events(c) : Events(c)[k].seq \in 1..seq
        /\ \A k, l \in DOMAIN Events(c) : k < l => Events(c)[k].seq < Events(c)[l].seq

\* C7 witness: one connection was sent a tick, then an agent acknowledgement, then a
\* presence event.
C7_Witness ==
  \E c \in Conns : \E k, l, m \in DOMAIN Events(c) :
    /\ k < l /\ l < m
    /\ Events(c)[k].event = "tick"
    /\ IsAck(Events(c)[l])
    /\ Events(c)[m].event = "presence"

\* C8 (as the spec states it): on a connection that has had its hello-ok, is open, and
\* was never found above MAX_BUFFERED_BYTES by a broadcast, the event frames sent carry
\* consecutive seqs.
C8_NoGapForReadyConn ==
  \A c \in Conns :
    (HelloOkSent(c) /\ sock[c] = "open" /\ c \notin overflowed)
      => \A k \in DOMAIN Events(c) :
            k > 1 => Events(c)[k].seq = Events(c)[k - 1].seq + 1

\* C9 (as the spec states it): the handler of a successful system-event request writes
\* the res to the requesting connection before the presence event it triggers.
C9_ResBeforePresence ==
  [][(Receives /\ Received.method = "system-event")
       => LET c == Received.conn
              new == SubSeq(wire'[c], Len(wire[c]) + 1, Len(wire'[c]))
          IN  \A p, q \in DOMAIN new :
                (new[p].type = "res" /\ new[p].ok /\ new[q].type = "event"
                   /\ new[q].event = "presence") => p < q
    ]_vars

\* C10 (as the spec states it): a step that broadcasts a presence event (seq and
\* presenceVersion both advance) closes with 1008 every open connection, other than a
\* disconnecting one, that this broadcast is the first to find above MAX_BUFFERED_BYTES.
C10_PresenceClosesSlowConsumer ==
  [][(seq' = seq + 1 /\ presenceVersion' = presenceVersion + 1)
       => \A c \in overflowed' \ overflowed :
             (sock[c] = "open" /\ sock'[c] # "closed")
               => (sock'[c] = "closing" /\ closeCode'[c] = 1008)
    ]_vars

\* This step builds an event frame with broadcast() (the agent acknowledgement is
\* written with socket.send, not broadcast).
Broadcasts ==
  Len(eventLog') = Len(eventLog) + 1 /\ ~(Receives /\ Received.method = "agent")

\* The frames this step hands to connection c.
NewFrames(c) == SubSeq(wire'[c], Len(wire[c]) + 1, Len(wire'[c]))

\* Connection c has had its hello-ok and its socket is open.
Ready(c) == HelloOkSent(c) /\ sock[c] = "open"

EventSeqs(c) == {Events(c)[k].seq : k \in DOMAIN Events(c)}

\* C11: a broadcast hands its event frame, with the seq it was given, to every
\* connection that is READY (and not the one whose disconnect is being announced) and
\* that this broadcast did not find above MAX_BUFFERED_BYTES, whatever it finds and does
\* on the other connections.
C11_BroadcastReachesUnpressured ==
  [][Broadcasts
       => \A c \in Conns :
            (Ready(c) /\ sock'[c] # "closed" /\ c \notin lastBroadcast'.slow)
              => \E k \in DOMAIN NewFrames(c) :
                    /\ IsEvent(NewFrames(c)[k])
                    /\ NewFrames(c)[k].seq = seq'
                    /\ NewFrames(c)[k].event = lastBroadcast'.event
    ]_vars

\* C11 witness: the latest broadcast closed connection d as a slow consumer and its
\* frame is the last one handed to the READY connection c.
C11_Witness ==
  \E c, d \in Conns :
    /\ c # d
    /\ d \in lastBroadcast.slow /\ sock[d] = "closing" /\ closeCode[d] = 1008
    /\ Ready(c)
    /\ wire[c] # <<>>
    /\ IsEvent(wire[c][Len(wire[c])])
    /\ wire[c][Len(wire[c])].seq = seq
    /\ wire[c][Len(wire[c])].event = lastBroadcast.event

C13_TickNeverCloses ==
  [][/\ (Broadcasts /\ lastBroadcast'.event = "tick")
          => /\ sock' = sock /\ closeCode' = closeCode
             /\ clients' = clients /\ closed' = closed
             /\ \A c \in clients :
                   sock[c] = "open"
                     => wire'[c] = IF c \in lastBroadcast'.slow
                                     THEN wire[c]
                                     ELSE Append(wire[c],
                                            EventFrame("tick", TickPayload, seq', NoVersion))
     /\ \A c \in Conns : \A k \in DOMAIN NewFrames(c) :
           IsEvent(NewFrames(c)[k]) => (NewFrames(c)[k].seq = seq' /\ seq' = seq + 1)
    ]_vars

\* C13 witness: connections c and d are READY; d was handed ticks n - 1, n and n + 1,
\* c the ticks n - 1 and n + 1 but not n, for which it was found slow; c was never
\* closed.
C13_Witness ==
  \E c, d \in Conns : \E n \in EventSeqs(d) :
    /\ c # d
    /\ Ready(c) /\ Ready(d)
    /\ closeCode[c] = 0
    /\ c \in overflowed
    /\ \A k \in DOMAIN Events(d) : Events(d)[k].event = "tick"
    /\ {n - 1, n + 1} \subseteq EventSeqs(c) \cap EventSeqs(d)
    /\ n \notin EventSeqs(c)

\* The first frame passes the three checks of the hello branch, the token being the
\* configured one (the environment sets it before the first connection only).
Acceptable(f) ==
  /\ f.kind = "hello"
  /\ f.valid
  /\ f.minProtocol <= PROTOCOL_VERSION /\ PROTOCOL_VERSION <= f.maxProtocol
  /\ gatewayToken # "" => f.token = gatewayToken

Mismatched(f) ==
  f.kind = "hello" /\ f.valid
    /\ (f.maxProtocol < PROTOCOL_VERSION \/ f.minProtocol > PROTOCOL_VERSION)

Closed(c) == sock[c] \in {"closing", "closed"}

\* C14: a connection that has a client, is in the broadcast set, has had a request
\* dispatched or a frame other than hello-error handed to it, or has a presence entry,
\* is one whose first frame was a schema-valid hello with minProtocol <= 1 <=
\* maxProtocol and, a token being configured, that token.
C14_OnlyAcceptedHelloEnters ==
  \A c \in Conns :
    (\/ client[c]
     \/ c \in clients
     \/ \E i \in DOMAIN reqs : reqs[i].conn = c
     \/ badFrames[c] # <<>>
     \/ \E k \in DOMAIN wire[c] : wire[c][k].type # "hello-error"
     \/ PresenceKey(instanceId[c], c) \in DOMAIN entries)
      => Acceptable(firstFrame[c])

\* C14 witness: with a token configured, connection c came in with it and had a
\* system-event request dispatched; connection d sent a hello with another token and
\* has no client, no place in the broadcast set, no presence entry and no event.
C14_Witness ==
  \E c, d \in Conns :
    /\ gatewayToken = "secret"
    /\ firstFrame[c].token = "secret" /\ client[c]
    /\ \E i \in DOMAIN reqs : reqs[i].conn = c /\ ResOf(i) # {}
    /\ Events(c) # <<>>
    /\ firstFrame[d].kind = "hello" /\ firstFrame[d].valid /\ firstFrame[d].token = "wrong"
    /\ ~client[d] /\ d \notin clients
    /\ PresenceKey(instanceId[d], d) \notin DOMAIN entries
    /\ Len(wire[d]) = 1

\* C15: a connection whose first frame was a schema-valid hello with a protocol range
\* that does not contain 1 has been handed exactly one frame, hello-error with reason
\* "protocol mismatch" and expectedProtocol 1, and was closed with code 1002, whatever
\* token the hello carried.
C15_ProtocolMismatch ==
  \A c \in Conns :
    Mismatched(firstFrame[c])
      => /\ wire[c] = <<HelloErrorFrame("protocol mismatch", PROTOCOL_VERSION)>>
         /\ closeCode[c] = 1002
         /\ Closed(c)
         /\ ~client[c]

\* C15 witness: a token is configured, and a hello with a wrong token and the range
\* 2..2 was refused for its protocol.
C15_Witness ==
  \E c \in Conns :
    /\ gatewayToken = "secret"
    /\ Mismatched(firstFrame[c])
    /\ firstFrame[c].token = "wrong"
    /\ closeCode[c] = 1002
    /\ wire[c] # <<>> /\ wire[c][1].reason = "protocol mismatch"

\* C16: with a token configured, a connection whose first frame was a schema-valid,
\* protocol-compatible hello with no auth.token or another one has been handed exactly
\* one frame, hello-error with reason "unauthorized", and was closed with code 1008.
C16_Unauthorized ==
  \A c \in Conns :
    (/\ gatewayToken # ""
     /\ firstFrame[c].kind = "hello" /\ firstFrame[c].valid
     /\ ~Mismatched(firstFrame[c])
     /\ firstFrame[c].token # gatewayToken)
      => /\ wire[c] = <<HelloErrorFrame("unauthorized", 0)>>
         /\ closeCode[c] = 1008
         /\ Closed(c)
         /\ ~client[c] /\ ~HelloOkSent(c)

\* C16 witness: one hello without a token and one with a wrong token were refused.
C16_Witness ==
  \E c, d \in Conns :
    /\ gatewayToken = "secret"
    /\ firstFrame[c].kind = "hello" /\ firstFrame[c].valid /\ firstFrame[c].token = ""
    /\ firstFrame[d].kind = "hello" /\ firstFrame[d].valid /\ firstFrame[d].token = "wrong"
    /\ ~Mismatched(firstFrame[c]) /\ ~Mismatched(firstFrame[d])
    /\ closeCode[c] = 1008 /\ closeCode[d] = 1008
    /\ wire[c] # <<>> /\ wire[c][1].reason = "unauthorized"
    /\ wire[d] # <<>> /\ wire[d][1].reason = "unauthorized"

\* C17: a connection that has sent no frame has been handed no frame and, while its
\* socket is open, has its handshake timer armed; the step that disarms the timer of a
\* connection that stays silent closes it (socket.close(1000) by the server, unless the
\* peer closed first) and hands it nothing.
C17_SilentHandshakeClosed ==
  [][\A c \in Conns :
       /\ firstFrame'[c].kind = "none"
            => /\ wire'[c] = <<>>
               /\ sock'[c] = "open" => handshakeTimer'[c]
       /\ (handshakeTimer[c] /\ ~handshakeTimer'[c] /\ firstFrame'[c].kind = "none")
            => /\ closed'[c]
               /\ sock'[c] = "closing" => closeCode'[c] = 1000
               /\ sock'[c] \in {"closing", "closed"}
    ]_vars

\* C17 witness: connection c sent nothing and was closed with 1000 and no frame, while
\* connection d completed its handshake.
C17_Witness ==
  \E c, d \in Conns :
    /\ firstFrame[c].kind = "none"
    /\ sock[c] = "closing" /\ closeCode[c] = 1000 /\ closed[c]
    /\ wire[c] = <<>>
    /\ HelloOkSent(d)

\* In this step connection c's handler, having a client, refuses a frame of the kind.
Refuses(c, kind) ==
  /\ Len(badFrames'[c]) = Len(badFrames[c]) + 1
  /\ badFrames'[c][Len(badFrames'[c])].kind = kind

InvalidRes(frame) ==
  frame.type = "res" /\ ~frame.ok /\ frame.error.code = "INVALID_REQUEST"

\* C18: the step that handles a further hello on a connection whose hello was accepted
\* hands that connection one res frame, ok false with code INVALID_REQUEST, and nothing
\* else to anybody; the client, the broadcast set, the presence registry,
\* presenceVersion and healthVersion are as they were.
C18_FurtherHelloRefused ==
  [][\A c \in Conns :
       Refuses(c, "hello")
         => /\ Len(NewFrames(c)) = 1 /\ InvalidRes(NewFrames(c)[1])
            /\ NewFrames(c)[1].id = InvalidId
            /\ \A d \in Conns \ {c} : wire'[d] = wire[d]
            /\ UNCHANGED <<client, instanceId, helloWait, clients, entries,
                           presenceVersion, healthVersion, sock, closed, seq>>
    ]_vars

\* C18 witness: a connection has had its hello-ok, then the res that refuses a further
\* hello, and is open and in the broadcast set; presenceVersion is the one of its
\* hello-ok.
C18_Witness ==
  \E c \in Conns :
    /\ badFrames[c] # <<>> /\ badFrames[c][1].kind = "hello"
    /\ HelloOkSent(c)
    /\ Cardinality({k \in DOMAIN wire[c] : wire[c][k].type = "hello-ok"}) = 1
    /\ ResIndexes(c, InvalidId) # {}
    /\ sock[c] = "open" /\ c \in clients
    /\ \E k \in DOMAIN wire[c] :
          wire[c][k].type = "hello-ok" /\ wire[c][k].stateVersion.presence = presenceVersion

C20_InboundFrameNeverCloses ==
  [][\A c \in Conns :
       (\/ Receives /\ Received.conn = c
        \/ badFrames'[c] # badFrames[c]
        \/ \E i \in DOMAIN reqs : reqs[i].conn = c /\ Settles(i))
         => /\ sock'[c] = sock[c] /\ closed'[c] = closed[c] /\ closeCode'[c] = closeCode[c]
            /\ client'[c] = client[c]
            /\ c \in clients' <=> c \in clients
            /\ (Receives /\ Received.method = "bogus")
                 => /\ NewFrames(c) # <<>>
                    /\ InvalidRes(NewFrames(c)[1])
                    /\ NewFrames(c)[1].error.message = "unknown method: bogus"
    ]_vars

\* C20 witness: a connection was sent text that is no JSON or an invalid frame, then a
\* request with an unknown method, which was dispatched and answered; it is open and in
\* the broadcast set.
C20_Witness ==
  \E c \in Conns :
    /\ badFrames[c] # <<>>
    /\ \E i \in DOMAIN reqs :
          /\ reqs[i].conn = c /\ reqs[i].method = "bogus"
          /\ \E f \in ResOf(i) : f.error.message = "unknown method: bogus"
          /\ \A k \in ResIndexes(c, InvalidId) : \E j \in ResIndexes(c, ReqId(i)) : k < j
    /\ sock[c] = "open" /\ ~closed[c] /\ c \in clients

\* Request i is an agent request that went to the Agent port.
Executed(i) == reqs[i].method = "agent" /\ reqs[i].runId # NoRun

\* Positions in connection c's outgoing frames of the acknowledgements of run runId.
AckIndexes(c, runId) ==
  {k \in DOMAIN wire[c] : IsAck(wire[c][k]) /\ wire[c][k].payload.runId = runId}

\* C21: every agent request that went to the Agent port has, on its connection, one
\* acknowledgement event (status "accepted") with its runId, which is the sessionId
\* given or else an id no other request has; its res comes after the acknowledgement,
\* only once the port has settled, and carries the same runId. No other connection is
\* handed an acknowledgement for it.
C21_AckBeforeFinalRes ==
  \A i \in DOMAIN reqs :
    Executed(i)
      => LET c == reqs[i].conn
             runId == reqs[i].runId
         IN  /\ runId[1] \in {"session", "uuid"}
             /\ runId[1] = "session" => runId[2] \in SessionIds \ {""}
             /\ runId[1] = "uuid"
                  => \A j \in DOMAIN reqs \ {i} : reqs[j].runId # runId
             /\ \A d \in Conns :
                  Cardinality(AckIndexes(d, runId)) =
                    Cardinality({j \in DOMAIN reqs :
                                   Executed(j) /\ reqs[j].conn = d /\ reqs[j].runId = runId})
             /\ \A k \in ResIndexes(c, ReqId(i)) :
                  /\ reqs[i].st = "done"
                  /\ wire[c][k].payload.runId = runId
                  /\ \E a \in AckIndexes(c, runId) : a < k

\* C21 witness: an agent request without sessionId was acknowledged with a fresh runId,
\* the port failed, and the res with the same runId came after the acknowledgement.
C21_Witness ==
  \E i \in DOMAIN reqs :
    /\ Executed(i) /\ reqs[i].runId[1] = "uuid" /\ reqs[i].st = "done"
    /\ \E k \in ResIndexes(reqs[i].conn, ReqId(i)) :
          /\ ~wire[reqs[i].conn][k].ok
          /\ wire[reqs[i].conn][k].payload.runId = reqs[i].runId
          /\ \E a \in AckIndexes(reqs[i].conn, reqs[i].runId) : a < k

\* C22: the res of an agent request whose port call failed has ok false; its error code
\* is AGENT_TIMEOUT when the port gave up on the caller's timeout, and otherwise
\* UNAVAILABLE, with a payload {status: "error", summary} whose summary is the failure.
C22_TimeoutCode ==
  \A i \in DOMAIN reqs :
    Executed(i)
      => \A f \in ResOf(i) :
           ~f.ok
             => IF f.payload.summary = TimeoutError
                  THEN f.error.code = "AGENT_TIMEOUT"
                  ELSE /\ f.error.code = "UNAVAILABLE"
                       /\ f.payload.status = "error"
                       /\ f.payload.summary = f.error.message

IsPresence(f) == f.type = "event" /\ f.event = "presence"

\* The presence event frames handed to any connection (after the step, when primed).
PresenceFrames == UNION {{wire[c][k] : k \in {n \in DOMAIN wire[c] : IsPresence(wire[c][n])}} : c \in Conns}

\* C23: no step lowers presenceVersion or healthVersion; a step that broadcasts a
\* presence event raises presenceVersion and the event carries the raised value; of any
\* two presence events, the one built later (the greater seq) carries the greater
\* stateVersion.presence.
C23_VersionsMonotonic ==
  [][/\ presenceVersion' >= presenceVersion
     /\ healthVersion' >= healthVersion
     /\ \A c \in Conns : \A k \in DOMAIN NewFrames(c) :
           IsPresence(NewFrames(c)[k])
             => /\ NewFrames(c)[k].stateVersion.presence = presenceVersion'
                /\ presenceVersion' > presenceVersion
     /\ \A f, g \in PresenceFrames' :
           f.seq < g.seq => f.stateVersion.presence < g.stateVersion.presence
    ]_vars

\* C23 witness: a connection was sent the presence event of a system-event request and
\* later that of the other connection's disconnect, with a greater version, and a
\* system-presence read was answered.
C23_Witness ==
  \E c \in Conns : \E k, l \in DOMAIN wire[c] :
    /\ k < l
    /\ IsPresence(wire[c][k]) /\ IsPresence(wire[c][l])
    /\ wire[c][k].stateVersion.presence < wire[c][l].stateVersion.presence
    /\ wire[c][l].stateVersion.presence = presenceVersion
    /\ \E i, j \in DOMAIN reqs :
          /\ reqs[i].method = "system-event" /\ reqs[j].method = "system-presence"
          /\ ResOf(j) # {}
    /\ \E d \in Conns : client[d] /\ sock[d] = "closed"

\* C24: the step that handles a system-event request whose text is missing or empty
\* ("") or blank (" ") hands the requester one res, ok false with code INVALID_REQUEST,
\* and nothing to anybody else; the system-event queue, presenceVersion, seq, the
\* presence registry and the events built are as they were.
C24_BlankSystemEvent ==
  [][(Receives /\ Received.method = "system-event" /\ Received.text \in {"", " "})
       => /\ NewFrames(Received.conn)
               = <<ResFrame(ReqId(Received.id), FALSE, Undefined,
                            errorShape("INVALID_REQUEST", "text required"))>>
          /\ \A d \in Conns \ {Received.conn} : wire'[d] = wire[d]
          /\ UNCHANGED <<systemEvents, presenceVersion, healthVersion, seq, eventLog,
                         entries, sock, clients>>
    ]_vars

\* C24 witness: a blank system-event was refused and left queue, version and seq alone,
\* then one with text went through.
C24_Witness ==
  \E i, j \in DOMAIN reqs :
    /\ i < j
    /\ reqs[i].method = "system-event" /\ reqs[i].text = " "
    /\ \E f \in ResOf(i) : ~f.ok /\ f.error.code = "INVALID_REQUEST"
    /\ reqs[j].method = "system-event" /\ reqs[j].text = "note"
    /\ \E f \in ResOf(j) : f.ok
    /\ systemEvents = 1 /\ seq = 1

\* C25: the step that handles a send or agent request whose params fail validation (no
\* idempotencyKey, or an empty one) hands the requester one res, ok false with code
\* INVALID_REQUEST, and nothing to anybody else; no port is invoked, no acknowledgement
\* is built (seq is as it was), the answer is no cached one and the dedupe cache is as
\* it was, then and ever after for the empty key.
C25_InvalidParamsNoEffect ==
  [][/\ (Receives /\ Received.method \in Mutating /\ Received.idem = "")
          => /\ Len(NewFrames(Received.conn)) = 1
             /\ InvalidRes(NewFrames(Received.conn)[1])
             /\ NewFrames(Received.conn)[1].id = ReqId(Received.id)
             /\ NewFrames(Received.conn)[1].payload = Undefined
             /\ Received.st = "done" /\ Received.runId = NoRun
             /\ \A d \in Conns \ {Received.conn} : wire'[d] = wire[d]
             /\ UNCHANGED <<portLog, dedupe, seq, eventLog, uuids>>
     /\ \A method \in Mutating : DedupeKey(method, "") \notin DOMAIN dedupe'
    ]_vars

\* C25 witness: a send with key "K" was delivered and cached; then an agent request
\* without a key was refused, with the one port call and the one cache entry of before.
C25_Witness ==
  \E i, j \in DOMAIN reqs :
    /\ i < j
    /\ reqs[i].method = "send" /\ reqs[i].idem = "K" /\ reqs[i].st = "done"
    /\ reqs[j].method = "agent" /\ reqs[j].idem = ""
    /\ \E f \in ResOf(j) : InvalidRes(f)
    /\ Len(portLog) = 1
    /\ DOMAIN dedupe = {DedupeKey("send", "K")}
    /\ seq = 0

IsShutdown(f) == f.type = "event" /\ f.event = "shutdown"

\* C26: the step in which the server's close() runs hands every connection that has had
\* its hello-ok and is open exactly one shutdown event and leaves it closing with code
\* 1012; a connection that has been handed a shutdown event is handed no event after it.
C26_ShutdownReachesEveryReady ==
  [][/\ (running /\ ~running')
          => \A c \in Conns :
                Ready(c)
                  => /\ Len(SelectSeq(NewFrames(c), IsShutdown)) = 1
                     /\ sock'[c] = "closing"
                     /\ closeCode'[c] = 1012
     /\ \A c \in Conns :
          (\E k \in DOMAIN wire[c] : IsShutdown(wire[c][k]))
             => SelectSeq(NewFrames(c), IsEvent) = <<>>
    ]_vars

\* In this step connection c's socket closes.
Disconnects(c) == sock[c] # "closed" /\ sock'[c] = "closed"

Lists == entries' = listSystemPresence(entries, now) /\ now' = now

\* C28: after a call of listSystemPresence the registry, and with it the list returned,
\* has at most MAX_ENTRIES (200) entries.
C28_RegistryCapped ==
  [][Lists => Cardinality(DOMAIN entries') <= MAX_ENTRIES]_vars

\* The list holds the entries of the registry e, ordered by ts descending.
NewestFirst(e, list) ==
  /\ Len(list) = Cardinality(DOMAIN e)
  /\ {list[n] : n \in DOMAIN list} = {e[k] : k \in DOMAIN e}
  /\ \A n \in 1..(Len(list) - 1) : list[n].ts >= list[n + 1].ts

\* Read at time t, the registry r that listSystemPresence leaves holds the self-entry
\* with that time and no entry older than TTL_MS, and the list returned is ordered.
FreshSorted(r, t) ==
  /\ SelfKey \in DOMAIN r
  /\ r[SelfKey] = [reason |-> "self", ts |-> t]
  /\ \A k \in DOMAIN r : t - r[k].ts <= TTL_MS
  /\ NewestFirst(r, presenceList(r))

\* C29: whatever upserts, reads and expirations the registry has gone through, a call
\* of listSystemPresence leaves it with the self-entry, timestamped with the time of the
\* call, and with no entry older than TTL_MS, and returns its entries ordered by ts,
\* newest first.
C29_ListFreshSorted == FreshSorted(listSystemPresence(entries, now), now)

\* C29 witness: the registry was read when the self-entry and the oldest other entry
\* had expired: the self-entry is back with the time of the read, the expired entry is
\* gone and the rest is there.
C29_Witness ==
  /\ now = TTL_MS + MaxStale
  /\ entries[SelfKey].ts = now
  /\ <<"conn", "", 1>> \notin DOMAIN entries
  /\ <<"conn", "", MAX_ENTRIES - 1>> \in DOMAIN entries
  /\ \A k \in DOMAIN entries : now - entries[k].ts <= TTL_MS

\* This step is a run of the dedupe sweep.
Sweeps == dedupe' = dedupeCleanup(dedupe, now) /\ now' = now

\* C30: after a run of the sweep the cache holds no entry older than DEDUPE_TTL_MS and
\* at most DEDUPE_MAX (1000) entries, and an entry that was no older than the TTL and
\* is gone was no newer than any entry that is left.
C30_SweepEnforcesTtlAndCap ==
  [][Sweeps
       => /\ \A k \in DOMAIN dedupe' : now - dedupe'[k].ts <= DEDUPE_TTL_MS
          /\ Cardinality(DOMAIN dedupe') <= DEDUPE_MAX
          /\ \A k \in DOMAIN dedupe \ DOMAIN dedupe' :
                now - dedupe[k].ts <= DEDUPE_TTL_MS
                  => \A j \in DOMAIN dedupe' : dedupe[k].ts <= dedupe'[j].ts
    ]_vars

\* Request i of a connection is suspended on its port.
Suspended(i) == reqs[i].st = "await"

\* C35: a request received while an earlier request of the same connection is suspended
\* on a collaborator port is dispatched and, when its handler does not itself suspend,
\* answered in that step, without waiting for the suspended one.
C35_NoWaitBehindSuspended ==
  [][(/\ Receives
      /\ Received.st = "done"
      /\ Received.method # "system-event"
      /\ \E i \in DOMAIN reqs : reqs[i].conn = Received.conn /\ Suspended(i))
       => \E k \in DOMAIN NewFrames(Received.conn) :
             /\ NewFrames(Received.conn)[k].type = "res"
             /\ NewFrames(Received.conn)[k].id = ReqId(Received.id)
    ]_vars

\* The responses of one connection have been emitted in another order than the requests
\* were received: the later request was answered while the earlier one was suspended.
C35_Witness ==
  \E i, j \in DOMAIN reqs :
    /\ i < j
    /\ reqs[i].conn = reqs[j].conn
    /\ reqs[i].method = "agent"
    /\ \E m \in ResIndexes(reqs[i].conn, ReqId(i)), n \in ResIndexes(reqs[j].conn, ReqId(j)) :
          n < m

\* C36 (as the spec states it): on every connection each event frame and each res frame
\* comes after the connection's hello-ok.
C36_HelloOkFirst ==
  \A c \in Conns : \A k \in DOMAIN wire[c] :
    wire[c][k].type \in {"event", "res"}
      => \E j \in 1..(k - 1) : wire[c][j].type = "hello-ok"

\* C37 (as the spec states it): a connection whose hello was accepted is in the end
\* sent hello-ok, unless its socket closes first, whether getHealthSnapshot() succeeds
\* or fails.
C37_HelloOkEventually ==
  \A c \in Conns : (client[c] /\ sock[c] = "open") ~> (HelloOkSent(c) \/ sock[c] # "open")

\* C38 (as the spec states it): a send or agent request whose key names only a cache
\* entry older than DEDUPE_TTL_MS is executed through its port, not answered from the
\* entry.
C38_ExpiredEntryNotUsed ==
  [][(/\ Receives
      /\ Received.method \in Mutating
      /\ Received.idem # ""
      /\ DedupeKey(Received.method, Received.idem) \in DOMAIN dedupe
      /\ now - dedupe[DedupeKey(Received.method, Received.idem)].ts > DEDUPE_TTL_MS)
       => /\ Len(portLog') = Len(portLog) + 1
          /\ ~ReplaysCached(DedupeKey(Received.method, Received.idem))
    ]_vars

\* C39 (as the spec states it): while a connection whose hello was accepted has its
\* socket open, the registry entry under its presence key does not have reason
\* "disconnect".
C39_ReadyKeyNotDisconnected ==
  \A c \in Conns :
    (client[c] /\ sock[c] = "open" /\ PresenceKey(instanceId[c], c) \in DOMAIN entries)
      => entries[PresenceKey(instanceId[c], c)].reason # "disconnect"

RECURSIVE Pow2(_)
Pow2(n) == IF n = 0 THEN 1 ELSE 2 * Pow2(n - 1)

\* The closes the client has seen since its last hello-ok, or since it was made.
ClosesSinceHelloOk(log) ==
  Cardinality({k \in DOMAIN log :
                 /\ log[k].kind = "close"
                 /\ \A j \in (k + 1)..Len(log) : log[j].kind # "helloOk"})

\* This step schedules a reconnect; this step handles a hello-ok.
Schedules == Len(clientSide'.timers) = Len(clientSide.timers) + 1
Greeted ==
  /\ Len(clientSide'.callbacks) = Len(clientSide.callbacks) + 1
  /\ clientSide'.callbacks[Len(clientSide'.callbacks)].kind = "helloOk"

\* C31: the reconnect scheduled at the n-th close in a row without a hello-ok in between
\* has a delay of min(1000 * 2^(n-1), 30000) ms; backoffMs stays within 1000..30000 and
\* is 1000 after every hello-ok.
C31_BackoffDelay ==
  [][/\ clientSide'.backoffMs >= 1000 /\ clientSide'.backoffMs <= 30000
     /\ Schedules
          => clientSide'.timers[Len(clientSide'.timers)].delay =
               Min(1000 * Pow2(ClosesSinceHelloOk(clientSide.callbacks)), 30000)
     /\ Greeted => clientSide'.backoffMs = 1000
    ]_vars

\* C31 witness: as many closes in a row as there are attempts, none with a hello-ok
\* before it, stepping up from 1000 with the last two reconnects scheduled at the cap.
C31_Witness ==
  /\ Len(clientSide.timers) = MaxAttempts
  /\ \A k \in DOMAIN clientSide.callbacks : clientSide.callbacks[k].kind = "close"
  /\ clientSide.timers[1].delay = 1000
  /\ clientSide.timers[2].delay = 2000
  /\ clientSide.timers[MaxAttempts - 1].delay = 30000
  /\ clientSide.timers[MaxAttempts].delay = 30000
  /\ clientSide.backoffMs = 30000

\* C32: once stop() has been called the client creates no WebSocket and schedules no
\* reconnect, whatever happens next: the close of the socket it had, a reconnect timer
\* that was pending, a further start().
C32_StoppedStaysStopped ==
  [][clientSide.closed
       => /\ clientSide'.closed
          /\ Len(clientSide'.sockets) = Len(clientSide.sockets)
          /\ Len(clientSide'.timers) = Len(clientSide.timers)
          /\ clientSide'.ws = NoSocket
    ]_vars

\* C32 witness: the client was stopped while a reconnect timer was pending (every socket
\* but the first was made by a timer, so a timer for which there is no socket fired
\* after the stop); the timer has fired and there is no new socket.
C32_Witness ==
  /\ clientSide.closed
  /\ Len(clientSide.timers) = 2
  /\ Len(clientSide.sockets) = 2
  /\ \A t \in DOMAIN clientSide.timers : ~clientSide.timers[t].armed
  /\ \A s \in DOMAIN clientSide.sockets : clientSide.sockets[s].state = "closed"
  /\ clientSide.ws = NoSocket

\* In this step a socket of the client closes, or the client is stopped.
Drops ==
  \/ ~clientSide.closed /\ clientSide'.closed
  \/ \E s \in DOMAIN clientSide.sockets :
        clientSide.sockets[s].state # "closed" /\ clientSide'.sockets[s].state = "closed"

\* What this step settled.
NewlySettled ==
  {clientSide'.settled[k] : k \in (Len(clientSide.settled) + 1)..Len(clientSide'.settled)}

\* C33: the step in which the client's socket closes or the client is stopped rejects
\* every request that was pending and leaves the pending table empty; no request is
\* ever settled twice, and none that is settled is pending.
C33_PendingRejectedOnClose ==
  [][/\ Drops
          => /\ clientSide'.pending = {}
             /\ \A p \in clientSide.pending : [id |-> p.id, how |-> "reject"] \in NewlySettled
     /\ \A j, k \in DOMAIN clientSide'.settled :
           j # k => clientSide'.settled[j].id # clientSide'.settled[k].id
     /\ \A p \in clientSide'.pending :
           \A k \in DOMAIN clientSide'.settled : clientSide'.settled[k].id # p.id
    ]_vars

\* C33 witness: of two requests the first was answered and resolved, the second was
\* pending when the socket closed and was rejected; nothing is pending.
C33_Witness ==
  /\ clientSide.settled = <<[id |-> 1, how |-> "resolve"], [id |-> 2, how |-> "reject"]>>
  /\ clientSide.pending = {}
  /\ clientSide.sockets[1].state = "closed"
  /\ ~clientSide.closed

\* The callbacks this step invoked, in order.
NewCallbacks ==
  SubSeq(clientSide'.callbacks, Len(clientSide.callbacks) + 1, Len(clientSide'.callbacks))

\* This step handles an event frame that has a numeric seq.
HandlesSeq ==
  /\ NewCallbacks # <<>>
  /\ NewCallbacks[Len(NewCallbacks)].kind = "event"
  /\ NewCallbacks[Len(NewCallbacks)].received # NullSeq

\* C34: handling an event frame with a numeric seq invokes the gap callback, with
\* expected = lastSeq + 1 and received = seq, exactly when a seq was recorded before and
\* seq > lastSeq + 1, invokes it before onEvent, and leaves lastSeq = seq; no other step
\* changes lastSeq or reports a gap, a close and a reconnect included, so that an event
\* handled after the gateway has emitted events the client did not get reports a gap.
C34_GapReported ==
  [][IF HandlesSeq
       THEN LET received == NewCallbacks[Len(NewCallbacks)].received
                gap == /\ clientSide.lastSeq # NullSeq
                       /\ received > clientSide.lastSeq + 1
            IN  /\ NewCallbacks =
                     (IF gap THEN <<Called("gap", clientSide.lastSeq + 1, received)>>
                             ELSE <<>>) \o <<Called("event", 0, received)>>
                /\ clientSide'.lastSeq = received
                /\ (clientSide.lastSeq # NullSeq /\ clientSide.serverSeq > clientSide.lastSeq)
                      => NewCallbacks[1].kind = "gap"
       ELSE /\ clientSide'.lastSeq = clientSide.lastSeq
            /\ \A k \in DOMAIN NewCallbacks : NewCallbacks[k].kind # "gap"
    ]_vars

\* C34 witness: an event was handled, the socket closed, the gateway emitted an event the
\* client missed, and the first event handled after that was reported as a gap, the gap
\* before the event.
C34_Witness ==
  \E i, j, m \in DOMAIN clientSide.callbacks :
    /\ i < j /\ j < m /\ m < Len(clientSide.callbacks)
    /\ clientSide.callbacks[i] = Called("event", 0, 1)
    /\ clientSide.callbacks[j].kind = "close"
    /\ \A k \in (i + 1)..(m - 1) : clientSide.callbacks[k].kind # "event"
    /\ clientSide.callbacks[m] = Called("gap", 2, 3)
    /\ clientSide.callbacks[m + 1] = Called("event", 0, 3)
    /\ clientSide.lastSeq = 3

\* The frames the client has sent, socket by socket.
FramesSent(g) == [s \in DOMAIN g.sockets |-> g.sockets[s].frames]

\* C40 (as the spec states it): once the promise of callGateway has settled its client
\* creates no WebSocket and sends no frame.
C40_SettledCallIsQuiet ==
  [][clientSide.call.settled
       => /\ Len(clientSide'.sockets) = Len(clientSide.sockets)
          /\ FramesSent(clientSide') = FramesSent(clientSide)
    ]_vars

====
